---- MODULE Spec2Model ----
(***************************************************************************)
(* Bitcoin leg of the atomic-swap bridge: the executor's action resolver   *)
(* and tick, the HTLC wallet's transaction builders, the HTLC primitive    *)
(* and the chain watcher, modelled from the Rust sources.                  *)
(***************************************************************************)
EXTENDS Integers, Sequences, FiniteSets, TLC

VARIABLES
    order,      \* resolver: the MatchedOrder handed to determine_action
    action,     \* resolver: the ActionType determine_action returned ("none" before the call)
    htlc,       \* HTLC primitive / wallet: the BitcoinHTLC the call is made on
    hcall,      \* HTLC primitive: the last call made on htlc and its argument
    hres,       \* HTLC primitive: what that call returned
    wenv,       \* wallet: the indexer's view (UTXOs of the HTLC address, tip height)
    wcall,      \* wallet: the last wallet call and the indexer responses it got
    wres,       \* wallet: what that call returned
    pending,    \* executor: the orders get_pending_orders returned for the running tick
    pc,         \* executor: "idle" between ticks, "loop" inside the for loop, "panicked"
    idx,        \* executor: how many orders of pending the running tick has taken up
    tick,       \* executor: how the last tick ended ("none" while running, "ok", "err")
    last,       \* executor: what the last loop iteration read, resolved and broadcast
    broadcasts, \* executor: the broadcast requests of the tick, in order
    initiated,  \* indexer: the orders an Init transaction was accepted for, over all ticks
    worder,     \* watcher: the order whose HTLC address is polled
    chain,      \* watcher: what the chain holds for that address
    watched_addresses,       \* watcher: address -> last balance seen
    init_watched_addresses,  \* watcher: address -> whether funding is awaited
    swap_doc,   \* watcher: the swap record the store holds for the order
    poll,       \* watcher: the last call of watch_order_htlc, what it saw and emitted
    polls,      \* watcher: the number of calls so far
    cycle,      \* watcher: the running watch_cycle, its orders and how far it got
    submit,     \* indexer: the running submit_tx call, its attempts and its result
    htlc_params,  \* watcher store: id -> the HTLC record kept in memory
    scall       \* watcher store: the last call made on the store and its arguments

resolverVars == <<order, action>>

htlcVars == <<htlc, hcall, hres>>

walletVars == <<wenv, wcall, wres>>

execVars == <<pending, pc, idx, tick, last, broadcasts, initiated>>

watcherVars == <<worder, chain, watched_addresses, init_watched_addresses, swap_doc, poll, polls>>

cycleVars == <<cycle>>

submitVars == <<submit>>

storeVars == <<htlc_params, scall>>

vars == <<order, action, htlc, hcall, hres, wenv, wcall, wres, pending, pc, idx, tick, last, broadcasts,
          initiated, worder, chain, watched_addresses, init_watched_addresses, swap_doc, poll, polls,
          cycle, submit, htlc_params, scall>>

----------------------------------------------------------------------------
(* Byte strings, hex strings and SHA-256.                                  *)
(* A byte string is a number: 0 is the empty byte string, 1..MaxBytes are  *)
(* distinct non-empty byte strings.                                        *)

MaxBytes == 2

Bytes == 0..MaxBytes

\* sha2::Sha256: injective, never the identity, never the empty string.
Sha256(b) == b + 1

\* A Rust String holding either hex digits (of byte string val, possibly
\* written with upper-case digits) or something that is not hex.
NotHex == [hex |-> FALSE, val |-> 0, upper |-> FALSE]

HexStr(b, u) == [hex |-> TRUE, val |-> b, upper |-> u]

EmptyStr == HexStr(0, FALSE)

Strs == {HexStr(b, FALSE) : b \in Bytes} \cup {HexStr(b, TRUE) : b \in 1..MaxBytes} \cup {NotHex}

\* hex::encode writes lower-case digits.
hex_encode(b) == HexStr(b, FALSE)

\* hex::decode accepts either case and fails on anything else.
hex_decode(s) == IF s.hex THEN [ok |-> TRUE, bytes |-> s.val] ELSE [ok |-> FALSE, bytes |-> 0]

\* String::is_empty
is_empty(s) == s = EmptyStr

----------------------------------------------------------------------------
(* Option<String> transaction hashes of a Swap: <<>> is None, <<s>> is     *)
(* Some(s), with s the empty string "" or a transaction id.                *)

None == << >>

Some(s) == <<s>>

is_none(o) == o = None

is_some(o) == o # None

unwrap(o) == o[1]

TxHashes == {None, Some(""), Some("tx")}

\* The fields of a MatchedOrder that the resolver is given: the destination
\* swap's initiate/redeem/refund hashes and secret, the source swap's
\* redeem/refund hashes and the destination swap's initiate block number.
Swaps == [initiate_tx_hash : TxHashes, redeem_tx_hash : TxHashes,
          refund_tx_hash : TxHashes, secret : {EmptyStr, HexStr(1, FALSE), NotHex},
          initiate_block_number : {None, Some("7")}]

MatchedOrders == [source_swap : Swaps, destination_swap : Swaps]

----------------------------------------------------------------------------
(* OrderToActionMapper::determine_action                                   *)

\* Variant of determine_action that consults the refund branch before the
\* redeem branch.
determine_action_refund_first(o) ==
    IF is_none(o.destination_swap.initiate_tx_hash) \/ unwrap(o.destination_swap.initiate_tx_hash) = ""
    THEN "Init"
    ELSE IF (is_none(o.destination_swap.refund_tx_hash) \/ unwrap(o.destination_swap.refund_tx_hash) = "")
            /\ is_some(o.destination_swap.initiate_tx_hash)
    THEN "Refund"
    ELSE IF (is_none(o.source_swap.redeem_tx_hash) \/ unwrap(o.source_swap.redeem_tx_hash) = "")
            /\ ~is_empty(o.destination_swap.secret)
    THEN "Redeem"
    ELSE "NoOp"

\* Variant of determine_action that takes only None, not Some(""), as a
\* missing initiate transaction hash.
determine_action_none_only(o) ==
    IF is_none(o.destination_swap.initiate_tx_hash)
    THEN "Init"
    ELSE IF (is_none(o.source_swap.redeem_tx_hash) \/ unwrap(o.source_swap.redeem_tx_hash) = "")
            /\ ~is_empty(o.destination_swap.secret)
    THEN "Redeem"
    ELSE IF (is_none(o.destination_swap.refund_tx_hash) \/ unwrap(o.destination_swap.refund_tx_hash) = "")
            /\ is_some(o.destination_swap.initiate_tx_hash)
    THEN "Refund"
    ELSE "NoOp"

\* Variant of determine_action whose refund branch takes only None, not
\* Some(""), as a missing refund transaction hash.
determine_action_refund_none_only(o) ==
    IF is_none(o.destination_swap.initiate_tx_hash) \/ unwrap(o.destination_swap.initiate_tx_hash) = ""
    THEN "Init"
    ELSE IF (is_none(o.source_swap.redeem_tx_hash) \/ unwrap(o.source_swap.redeem_tx_hash) = "")
            /\ ~is_empty(o.destination_swap.secret)
    THEN "Redeem"
    ELSE IF is_none(o.destination_swap.refund_tx_hash) /\ is_some(o.destination_swap.initiate_tx_hash)
    THEN "Refund"
    ELSE "NoOp"

determine_action(o) ==
    IF is_none(o.destination_swap.initiate_tx_hash) \/ unwrap(o.destination_swap.initiate_tx_hash) = ""
    THEN "Init"
    ELSE IF (is_none(o.source_swap.redeem_tx_hash) \/ unwrap(o.source_swap.redeem_tx_hash) = "")
            /\ ~is_empty(o.destination_swap.secret)
    THEN "Redeem"
    ELSE IF (is_none(o.destination_swap.refund_tx_hash) \/ unwrap(o.destination_swap.refund_tx_hash) = "")
            /\ is_some(o.destination_swap.initiate_tx_hash)
    THEN "Refund"
    ELSE "NoOp"

----------------------------------------------------------------------------
(* Results of fallible calls: st is "ok", "err" (an Err the caller can     *)
(* handle) or "panic" (an unwrap/expect that aborts the task).             *)

Ok(v) == [st |-> "ok", err |-> "", val |-> v]

Err(e) == [st |-> "err", err |-> e, val |-> << >>]

Panic(e) == [st |-> "panic", err |-> e, val |-> << >>]

NoCall == [st |-> "none", err |-> "", val |-> << >>]

----------------------------------------------------------------------------
(* Taproot leaf scripts.  A public key string is a well-formed x-only key  *)
(* ("kA", "kB") or malformed ("bad").                                      *)

Keys == {"kA", "kB", "bad"}

\* Parsing a key string into an XOnlyPublicKey.
parse_xonly(k) == IF k = "bad" THEN Err("invalid public key") ELSE Ok(k)

\* A leaf script, by its opcodes' operands (unused operands are 0 or "").
Script(leaf, hash, timelock, key1, key2) ==
    [leaf |-> leaf, hash |-> hash, timelock |-> timelock, key1 |-> key1, key2 |-> key2]

\* OP_SHA256 <secret_hash> OP_EQUALVERIFY <redeemer_pubkey> OP_CHECKSIG
redeem_leaf(secret_hash, redeemer_pubkey) ==
    IF parse_xonly(redeemer_pubkey).st # "ok" THEN Err("redeem leaf")
    ELSE Ok(Script("redeem", secret_hash, 0, redeemer_pubkey, ""))

\* <timelock> OP_CSV OP_DROP <initiator_pubkey> OP_CHECKSIG
refund_leaf(timelock, initiator_pubkey) ==
    IF parse_xonly(initiator_pubkey).st # "ok" THEN Err("refund leaf")
    ELSE Ok(Script("refund", 0, timelock, initiator_pubkey, ""))

\* <initiator_pubkey> OP_CHECKSIG <redeemer_pubkey> OP_CHECKSIGADD 2 OP_NUMEQUAL
instant_refund_leaf(initiator_pubkey, redeemer_pubkey) ==
    IF parse_xonly(initiator_pubkey).st # "ok" \/ parse_xonly(redeemer_pubkey).st # "ok"
    THEN Err("instant refund leaf")
    ELSE Ok(Script("instant_refund", 0, 0, initiator_pubkey, redeemer_pubkey))

----------------------------------------------------------------------------
(* BitcoinHTLC                                                             *)

\* The networks of the executor's settings with a test address format, one
\* per human-readable part and two that share one.
Networks == {"regtest", "testnet", "signet"}

\* KnownHrp::from(network): testnet and signet addresses share the prefix tb.
KnownHrp_from(network) ==
    CASE network = "bitcoin" -> "bc"
      [] network = "regtest" -> "bcrt"
      [] OTHER -> "tb"

\* BitcoinHTLC::new: the secret hash string is hex-decoded, nothing else is
\* validated.
BitcoinHTLC_new(secret_hash, initiator_pubkey, redeemer_pubkey, timelock, network) ==
    LET d == hex_decode(secret_hash) IN
    IF ~d.ok THEN Err("hex decode")
    ELSE Ok([secret_hash |-> d.bytes, initiator_pubkey |-> initiator_pubkey,
             redeemer_pubkey |-> redeemer_pubkey, timelock |-> timelock, network |-> network])

\* The Taproot tree: the three leaves by Huffman weight.
construct_taproot(h) ==
    LET redeem == redeem_leaf(h.secret_hash, h.redeemer_pubkey)
        refund == refund_leaf(h.timelock, h.initiator_pubkey)
        instant == instant_refund_leaf(h.initiator_pubkey, h.redeemer_pubkey)
    IN  IF redeem.st # "ok" THEN Err("error building redeem leaf")
        ELSE IF refund.st # "ok" THEN Err("error building refund leaf")
        ELSE IF instant.st # "ok" THEN Err("error building instand refund leaf")
        ELSE Ok({[weight |-> 10, script |-> redeem.val], [weight |-> 5, script |-> refund.val],
                 [weight |-> 1, script |-> instant.val]})

\* The scripts committed in a tree.
TreeScripts(tree) == {l.script : l \in tree}

\* Variant of address that writes every address with the regtest prefix.
address_one_prefix(h) ==
    LET t == construct_taproot(h) IN
    IF t.st # "ok" THEN Err("error building taproot tree")
    ELSE Ok([kind |-> "p2tr", merkle_root |-> t.val, hrp |-> "bcrt"])

\* BitcoinHTLC::address: the P2TR address of the tree, written with the
\* human-readable part of the HTLC's network.
address(h) ==
    LET t == construct_taproot(h) IN
    IF t.st # "ok" THEN Err("error building taproot tree")
    ELSE Ok([kind |-> "p2tr", merkle_root |-> t.val, hrp |-> KnownHrp_from(h.network)])

\* BitcoinHTLC::get_control_block: the leaf script and its control block;
\* control_block(..).unwrap() panics for a script the tree does not commit.
get_control_block(h, leaf) ==
    LET t == construct_taproot(h)
        script == CASE leaf = "Redeem" -> redeem_leaf(h.secret_hash, h.redeemer_pubkey)
                    [] leaf = "Refund" -> refund_leaf(h.timelock, h.redeemer_pubkey)
                    [] OTHER -> instant_refund_leaf(h.initiator_pubkey, h.redeemer_pubkey)
    IN  IF t.st # "ok" THEN t
        ELSE IF script.st # "ok" THEN script
        ELSE IF script.val \notin TreeScripts(t.val) THEN Panic("control_block unwrap on None")
        ELSE Ok([script |-> script.val, control_block |-> [leaf |-> script.val, tree |-> t.val]])

\* The signature placeholder hex::decode("000000000000").
SigData == "sig_placeholder"

\* Variant of redeem that compares the secret itself, not its SHA-256, with
\* the secret hash.
redeem_no_hash(h, secret) ==
    LET d == hex_decode(secret)
        cb == get_control_block(h, "Redeem")
    IN  IF ~d.ok THEN Err("hex decode")
        ELSE IF d.bytes # h.secret_hash THEN Err("secret mismatch")
        ELSE IF cb.st # "ok" THEN cb
        ELSE Ok(<<SigData, d.bytes, cb.val.script, cb.val.control_block>>)

\* BitcoinHTLC::redeem
redeem(h, secret) ==
    LET d == hex_decode(secret)
        cb == get_control_block(h, "Redeem")
    IN  IF ~d.ok THEN Err("hex decode")
        ELSE IF Sha256(d.bytes) # h.secret_hash THEN Err("secret mismatch")
        ELSE IF cb.st # "ok" THEN cb
        ELSE Ok(<<SigData, d.bytes, cb.val.script, cb.val.control_block>>)

\* Variant of refund that spends through the instant refund leaf.
refund_instant(h) ==
    LET cb == get_control_block(h, "InstantRefund") IN
    IF cb.st # "ok" THEN cb
    ELSE Ok(<<SigData, cb.val.script, cb.val.control_block>>)

\* BitcoinHTLC::refund
refund(h) ==
    LET cb == get_control_block(h, "Refund") IN
    IF cb.st # "ok" THEN cb
    ELSE Ok(<<SigData, cb.val.script, cb.val.control_block>>)

----------------------------------------------------------------------------
(* HTLCWallet: fee and dust policy, refund_htlc.                           *)

P2WPKH_DUST_THRESHOLD == 294

P2TR_DUST_THRESHOLD == 330

DEFAULT_DUST_THRESHOLD == 546

\* A script_pubkey is known by its type.
ScriptKinds == {"p2wpkh", "p2tr", "other"}

\* Variant of get_dust_threshold that knows one threshold only.
get_dust_threshold_default(script_pubkey) == DEFAULT_DUST_THRESHOLD

get_dust_threshold(script_pubkey) ==
    IF script_pubkey = "p2wpkh" THEN P2WPKH_DUST_THRESHOLD
    ELSE IF script_pubkey = "p2tr" THEN P2TR_DUST_THRESHOLD
    ELSE DEFAULT_DUST_THRESHOLD

\* Variant of is_dust that also counts the threshold itself as dust.
is_dust_inclusive(value, script_pubkey) == value <= get_dust_threshold(script_pubkey)

\* Variant of is_dust that rejects an empty output only.
is_dust_zero(value, script_pubkey) == value = 0

is_dust(value, script_pubkey) == value < get_dust_threshold(script_pubkey)

\* Variant of calculate_fee that leaves the outputs out of the size.
calculate_fee_no_outputs(inputs, outputs, fee_rate) == fee_rate * (10 + inputs * 68)

calculate_fee(inputs, outputs, fee_rate) ==
    LET base_size == 10
        input_size == inputs * 68
        output_size == outputs * 35
        total_vbytes == base_size + input_size + output_size
    IN  fee_rate * total_vbytes

\* Variant of saturating_sub that deducts nothing.
saturating_sub_nothing(a, b) == a

\* u64::saturating_sub
saturating_sub(a, b) == IF a >= b THEN a - b ELSE 0

\* An Err that carries a number (the blocks still to wait).
ErrWith(e, n) == [st |-> "err", err |-> e, val |-> n]

TimelockNotExpired == "HTLC timelock not expired yet"

\* The u32 a named Sequence constant holds, by the fields BIP 68 reads:
\* ENABLE_LOCKTIME_NO_RBF is 0xFFFFFFFE and ENABLE_RBF_NO_LOCKTIME is
\* 0xFFFFFFFD, both with the disable flag (bit 31) and the type flag (bit
\* 22) set; value is the low 16 bits.
sequence_fields(sequence) ==
    [disable_flag |-> TRUE, type_flag |-> TRUE,
     value |-> IF sequence = "ENABLE_LOCKTIME_NO_RBF" THEN 65534 ELSE 65533]

\* The tail of refund_htlc, after the timelock gate: dust check, unsigned
\* transaction, witness data, Schnorr signature over the refund leaf.
refund_build(h, refund_script, utxo, current_height) ==
    LET estimated_fee == calculate_fee(1, 1, 20)
        output_value == saturating_sub(utxo.value, estimated_fee)
        witness_data == refund(h)
    IN  IF is_dust(output_value, refund_script) THEN Err("dust")
        ELSE IF witness_data.st # "ok" THEN witness_data
        ELSE IF Len(witness_data.val) < 3 THEN Err("Invalid witness data from BitcoinHTLC::refund")
        ELSE Ok([version |-> 2,
                 lock_time |-> current_height,
                 input |-> << [previous_output |-> utxo.txid,
                               sequence |-> "ENABLE_LOCKTIME_NO_RBF",
                               witness |-> << [schnorr |-> witness_data.val[2], sighash_type |-> "ALL"],
                                              witness_data.val[2], witness_data.val[3] >>] >>,
                 output |-> << [value |-> output_value, script_pubkey |-> refund_script] >>])

\* Variant of refund_htlc whose gate also rejects the boundary height.
refund_htlc_strict(h, refund_script, utxos, height) ==
    IF address(h).st # "ok" THEN Err("address")
    ELSE IF utxos.st # "ok" THEN Err("indexer")
    ELSE IF utxos.val = << >> THEN Err("HTLC address is not funded")
    ELSE IF height.st # "ok" THEN Err("indexer")
    ELSE LET utxo == utxos.val[1]
             current_height == height.val
             htlc_expiry_height == utxo.block_height + h.timelock
         IN  IF current_height <= htlc_expiry_height
             THEN ErrWith(TimelockNotExpired, htlc_expiry_height - current_height)
             ELSE refund_build(h, refund_script, utxo, current_height)

\* HTLCWallet::refund_htlc.  utxos and height are the indexer's answers to
\* get_utxos(htlc address) and get_current_block_height().
refund_htlc(h, refund_script, utxos, height) ==
    IF address(h).st # "ok" THEN Err("address")
    ELSE IF utxos.st # "ok" THEN Err("indexer")
    ELSE IF utxos.val = << >> THEN Err("HTLC address is not funded")
    ELSE IF height.st # "ok" THEN Err("indexer")
    ELSE LET utxo == utxos.val[1]
             current_height == height.val
             htlc_expiry_height == utxo.block_height + h.timelock
         IN  IF current_height < htlc_expiry_height
             THEN ErrWith(TimelockNotExpired, htlc_expiry_height - current_height)
             ELSE refund_build(h, refund_script, utxo, current_height)

\* HTLCWallet::redeem_htlc.  utxos is the indexer's answer to
\* get_utxos(htlc address).
redeem_htlc(h, secret, recipient_script, utxos) ==
    IF address(h).st # "ok" THEN Err("address")
    ELSE IF utxos.st # "ok" THEN Err("indexer")
    ELSE IF utxos.val = << >> THEN Err("HTLC address is not funded")
    ELSE LET utxo == utxos.val[1]
             estimated_fee == calculate_fee(1, 1, 20)
             output_value == saturating_sub(utxo.value, estimated_fee)
             witness_data == redeem(h, secret)
         IN  IF is_dust(output_value, recipient_script) THEN Err("dust")
             ELSE IF witness_data.st # "ok" THEN witness_data
             ELSE IF Len(witness_data.val) < 4 THEN Err("Invalid witness data from BitcoinHTLC::redeem")
             ELSE Ok([version |-> 2,
                      lock_time |-> 0,
                      input |-> << [previous_output |-> utxo.txid,
                                    sequence |-> "ENABLE_LOCKTIME_NO_RBF",
                                    witness |-> << [schnorr |-> witness_data.val[3], sighash_type |-> "ALL"],
                                                   witness_data.val[2], witness_data.val[3],
                                                   witness_data.val[4] >>] >>,
                      output |-> << [value |-> output_value, script_pubkey |-> recipient_script] >>])

RECURSIVE SumValues(_)
SumValues(us) == IF us = << >> THEN 0 ELSE us[1].value + SumValues(Tail(us))

\* The loop of get_utxos_for_amount: take UTXOs in order, stop as soon as
\* the running total equals amount.
RECURSIVE TakeUntilEqual(_, _, _, _)
TakeUntilEqual(us, taken, total, amount) ==
    IF us = << >> THEN taken
    ELSE IF total + us[1].value = amount THEN Append(taken, us[1])
    ELSE TakeUntilEqual(Tail(us), Append(taken, us[1]), total + us[1].value, amount)

\* SimpleIndexer::get_utxos_for_amount
get_utxos_for_amount(utxos, amount) ==
    IF utxos.st # "ok" THEN Err("indexer")
    ELSE LET filtered_utxos == TakeUntilEqual(utxos.val, << >>, 0, amount) IN
         IF SumValues(filtered_utxos) < amount THEN Err("Not enough funds in UTXOs")
         ELSE Ok(filtered_utxos)

\* HTLCWallet::initiate_htlc.  utxos is the indexer's answer to
\* get_utxos(wallet address); the wallet's own script is P2WPKH.
initiate_htlc(h, amount, utxos) ==
    LET htlc_address == address(h)
        selected == get_utxos_for_amount(utxos, amount)
    IN  IF htlc_address.st # "ok" THEN Err("address")
        ELSE IF selected.st # "ok" THEN selected
        ELSE LET inputs == selected.val
                 estimated_fee == calculate_fee(Len(inputs), 2, 10)
                 total_input == SumValues(inputs)
                 change_amount == total_input - amount - estimated_fee
                 htlc_output == [value |-> amount, script_pubkey |-> htlc_address.val]
                 outputs == IF change_amount > 0 /\ ~is_dust(change_amount, "p2wpkh")
                            THEN <<htlc_output, [value |-> change_amount, script_pubkey |-> "p2wpkh"]>>
                            ELSE <<htlc_output>>
             IN  IF total_input < amount + estimated_fee THEN Err("Insufficient funds")
                 ELSE Ok([version |-> 2,
                          lock_time |-> 0,
                          input |-> [i \in 1..Len(inputs) |->
                                        [previous_output |-> inputs[i].txid,
                                         sequence |-> "ENABLE_RBF_NO_LOCKTIME",
                                         witness |-> << [ecdsa |-> inputs[i].value, sighash_type |-> "ALL"],
                                                        "wallet_pubkey" >>]],
                          output |-> outputs])

\* An indexer request the call never made.
NotRequested == [st |-> "not requested", err |-> "", val |-> << >>]

----------------------------------------------------------------------------
(* Executor: OrderToActionMapper and the polling tick.                     *)

\* The timelock the mapper gives every BitcoinHTLC it builds.
DefaultTimelock == 12

\* The amount handle_init falls back to.
DefaultAmount == 50000

\* A destination_amount string: digits of a u64, or anything else.
AmountStr(n) == [parses |-> TRUE, val |-> n]

NotAnAmount == [parses |-> FALSE, val |-> 0]

\* OrderToActionMapper::extract_amount_from_order
extract_amount_from_order(o) ==
    IF o.create_order.destination_amount.parses
    THEN Some(o.create_order.destination_amount.val)
    ELSE None

\* Address strings: the wallet's own P2WPKH address, a Taproot address of
\* the same network, an address of another network, and no address at all.
AddressStrs == {"wallet_addr", "p2tr_addr", "mainnet_addr", "garbage"}

\* Address::from_str(..) followed by require_network(..), as handle_refund
\* chains them; the value is the kind of script the address pays to.
parse_refund_address(a) ==
    CASE a = "wallet_addr" -> Ok("p2wpkh")
      [] a = "p2tr_addr" -> Ok("p2tr")
      [] a = "mainnet_addr" -> Err("Address network mismatch")
      [] OTHER -> Err("Invalid refund address")

\* The HTLCAction values.
HTLCAction(kind, order_id, transaction) ==
    [kind |-> kind, order_id |-> order_id, transaction |-> transaction]

NoOp == [kind |-> "NoOp", order_id |-> 0, transaction |-> << >>]

\* Variant of is_broadcast without the Refund arm.
is_broadcast_no_refund(htlc_action) == htlc_action.kind \in {"Init", "Redeem"}

\* The arms of the match in process_pending_orders that call
\* broadcast_transaction: Init, Redeem and Refund, not NoOp.
is_broadcast(htlc_action) == htlc_action.kind \in {"Init", "Redeem", "Refund"}

\* What a wallet builder's result becomes in handle_init, handle_redeem and
\* handle_refund: Ok(tx) is the action, Err is logged and becomes NoOp.
ActionOf(kind, o, built) ==
    CASE built.st = "ok" -> Ok(HTLCAction(kind, o.create_order.create_id, built.val))
      [] built.st = "panic" -> built
      [] OTHER -> Ok(NoOp)

\* The BitcoinHTLC the three handlers build from the order.
OrderHtlc(o) ==
    BitcoinHTLC_new(o.destination_swap.secret, o.destination_swap.initiator,
                    o.destination_swap.redeemer, DefaultTimelock, "regtest")

\* OrderToActionMapper::handle_init.  env holds the indexer's answers.
handle_init(o, env) ==
    LET bitcoin_htlc == OrderHtlc(o)
        extracted == extract_amount_from_order(o)
        amount == IF is_some(extracted) THEN unwrap(extracted) ELSE DefaultAmount
    IN  IF bitcoin_htlc.st # "ok" THEN bitcoin_htlc
        ELSE ActionOf("Init", o, initiate_htlc(bitcoin_htlc.val, amount, env.wallet_utxos))

\* OrderToActionMapper::handle_redeem
handle_redeem(o, env) ==
    LET bitcoin_htlc == OrderHtlc(o) IN
    IF bitcoin_htlc.st # "ok" THEN bitcoin_htlc
    ELSE ActionOf("Redeem", o, redeem_htlc(bitcoin_htlc.val, o.destination_swap.secret,
                                            "p2wpkh", env.htlc_utxos))

\* Variant of handle_refund that builds the refund without the wallet's gate.
handle_refund_ungated(o, env) ==
    LET bitcoin_htlc == OrderHtlc(o)
        recipient == o.create_order.bitcoin_optional_recipient
        refund_address_str == IF is_some(recipient) THEN unwrap(recipient) ELSE "wallet_addr"
        refund_address == parse_refund_address(refund_address_str)
    IN  IF bitcoin_htlc.st # "ok" THEN bitcoin_htlc
        ELSE IF refund_address.st # "ok" THEN refund_address
        ELSE IF env.htlc_utxos.st # "ok" \/ env.htlc_utxos.val = << >> \/ env.height.st # "ok"
        THEN Ok(NoOp)
        ELSE ActionOf("Refund", o, refund_build(bitcoin_htlc.val, refund_address.val,
                                                 env.htlc_utxos.val[1], env.height.val))

\* OrderToActionMapper::handle_refund
handle_refund(o, env) ==
    LET bitcoin_htlc == OrderHtlc(o)
        recipient == o.create_order.bitcoin_optional_recipient
        refund_address_str == IF is_some(recipient) THEN unwrap(recipient) ELSE "wallet_addr"
        refund_address == parse_refund_address(refund_address_str)
    IN  IF bitcoin_htlc.st # "ok" THEN bitcoin_htlc
        ELSE IF refund_address.st # "ok" THEN refund_address
        ELSE ActionOf("Refund", o, refund_htlc(bitcoin_htlc.val, refund_address.val,
                                                env.htlc_utxos, env.height))

\* OrderToActionMapper::map
map(o, env) ==
    CASE determine_action(o) = "Init" -> handle_init(o, env)
      [] determine_action(o) = "Redeem" -> handle_redeem(o, env)
      [] determine_action(o) = "Refund" -> handle_refund(o, env)
      [] OTHER -> Ok(NoOp)

----------------------------------------------------------------------------
(* Chain watcher: watch_order_htlc and what it calls.                      *)

\* A JSON value of a witness array: a string, or something that is not.
JsonStr(s) == [json |-> "string", str |-> s]

JsonNumber == [json |-> "number", str |-> NotHex]

\* An HTTP exchange: the request fails to be sent or answered, or is
\* answered with a status outside 2xx, or with 2xx and a body.
Http(status, body) == [http |-> status, body |-> body]

\* A HashMap: get and insert.
MapGet(m, k) == IF k \in DOMAIN m THEN Some(m[k]) ELSE None

\* Variant of MapInsert that inserts nothing.
MapInsert_dropped(m, k, v) == m

MapInsert(m, k, v) == [x \in DOMAIN m \cup {k} |-> IF x = k THEN v ELSE m[x]]

EmptyMap == [x \in {} |-> 0]

\* BitcoinWatcher::hash_secret
hash_secret(secret) == hex_encode(Sha256(secret))

\* BitcoinWatcher::create_htlc_address
create_htlc_address(recipient_pubkey, refund_pubkey, hashlock, timelock) ==
    LET h == BitcoinHTLC_new(hashlock, refund_pubkey, recipient_pubkey, timelock, "regtest") IN
    IF h.st # "ok" THEN h ELSE address(h.val)

\* BitcoinWatcher::get_spending_transaction: the txid of the first entry of
\* the address's transaction list.
get_spending_transaction(txs) ==
    IF txs.http = "send error" THEN Err("request error")
    ELSE IF txs.http = "2xx" /\ txs.body # << >> THEN Ok(Some(txs.body[1]))
    ELSE Ok(None)

\* BitcoinWatcher::get_transaction_details
get_transaction_details(tx) ==
    IF tx.http = "send error" THEN Err("request error")
    ELSE IF tx.http # "2xx" THEN Ok(None)
    ELSE Ok(Some("details"))

\* Variant of RevealsPreimage that looks for the preimage in element[2].
RevealsPreimage_third(input, hashlock) ==
    /\ is_some(input.witness)
    /\ Len(unwrap(input.witness)) >= 4
    /\ unwrap(input.witness)[3].json = "string"
    /\ hex_decode(unwrap(input.witness)[3].str).ok
    /\ hash_secret(hex_decode(unwrap(input.witness)[3].str).bytes) = hashlock

\* The test analyze_spending_transaction makes on one input: a witness of
\* at least 4 elements whose element[1] is a hex string and whose hash, as
\* lower-case hex, is the hashlock string.
RevealsPreimage(input, hashlock) ==
    /\ is_some(input.witness)
    /\ Len(unwrap(input.witness)) >= 4
    /\ unwrap(input.witness)[2].json = "string"
    /\ hex_decode(unwrap(input.witness)[2].str).ok
    /\ hash_secret(hex_decode(unwrap(input.witness)[2].str).bytes) = hashlock

\* The loop of analyze_spending_transaction over the inputs: the preimage
\* string of the first input that passes the test.
RECURSIVE FirstPreimage(_, _)
FirstPreimage(vin, hashlock) ==
    IF vin = << >> THEN None
    ELSE IF RevealsPreimage(vin[1], hashlock) THEN Some(unwrap(vin[1].witness)[2].str)
    ELSE FirstPreimage(Tail(vin), hashlock)

\* BitcoinWatcher::analyze_spending_transaction
analyze_spending_transaction(tx, hashlock) ==
    IF tx.http = "send error" THEN Err("request error")
    ELSE IF tx.http # "2xx" THEN Ok(None)
    ELSE Ok(FirstPreimage(tx.body, hashlock))

\* Variant of Event that reports every transition as a funding.
Event_funded(kind, id, tx_hash, preimage, amount_sats) ==
    [kind |-> "HtlcFunded", id |-> id, tx_hash |-> tx_hash, preimage |-> preimage,
     amount_sats |-> amount_sats]

\* The BitcoinEvent values the watcher builds.
Event(kind, id, tx_hash, preimage, amount_sats) ==
    [kind |-> kind, id |-> id, tx_hash |-> tx_hash, preimage |-> preimage,
     amount_sats |-> amount_sats]

\* Variant of handle_event that swallows the store's error.
handle_event_swallowing(event, store_ok, swap) == [st |-> "ok", swap |-> swap]

\* BitcoinEventHandler::handle_event with the store's update_swap_initiate,
\* update_swap_redeem and update_swap_refund: an unconditional $set of the
\* swap's fields, or an error of the store that leaves the swap as it was.
handle_event(event, store_ok, swap) ==
    IF ~store_ok THEN [st |-> "err", swap |-> swap]
    ELSE [st |-> "ok",
          swap |-> CASE event.kind = "HtlcFunded" ->
                          [swap EXCEPT !.initiate_tx_hash = Some(event.tx_hash),
                                       !.filled_amount = event.amount_sats,
                                       !.initiate_block_number = Some("tip")]
                     [] event.kind = "HtlcClaimed" ->
                          [swap EXCEPT !.redeem_tx_hash = Some(event.tx_hash),
                                       !.redeem_block_number = Some("tip"),
                                       !.secret = event.preimage]
                     [] event.kind = "HtlcRefunded" ->
                          [swap EXCEPT !.refund_tx_hash = Some(event.tx_hash),
                                       !.refund_block_number = Some("tip")]
                     [] OTHER -> swap]

\* How a call of watch_order_htlc ends: its Result, the watcher's two maps
\* and the stored swap after it, and the events it handed to the handler.
Polled(st, watched, init_watched, swap, events) ==
    [st |-> st, watched_addresses |-> watched, init_watched_addresses |-> init_watched,
     swap |-> swap, events |-> events]

\* Variant of FindValue that takes the first UTXO whatever its value.
FindValue_first(utxos, value) == IF utxos = << >> THEN None ELSE Some(utxos[1])

\* The first UTXO of the given value (utxos.iter().find(..)).
RECURSIVE FindValue(_, _)
FindValue(utxos, value) ==
    IF utxos = << >> THEN None
    ELSE IF utxos[1].value = value THEN Some(utxos[1])
    ELSE FindValue(Tail(utxos), value)

\* BitcoinWatcher::watch_order_htlc.  w is the watcher (its two maps and the
\* swap its store holds for the order), ans the answers of the indexer and
\* of the store during the call.
watch_order_htlc(w, o, ans) ==
    LET htlc_address == create_htlc_address(o.recipient_pubkey, o.refund_pubkey,
                                            o.hashlock, o.timelock)
        Failed(events) == Polled("err", w.watched_addresses, w.init_watched_addresses,
                                 w.swap, events)
    IN
    IF htlc_address.st # "ok" THEN Failed(<< >>)
    ELSE IF ans.utxos.st # "ok" THEN Failed(<< >>)
    ELSE IF ans.tx_count.st # "ok" THEN Failed(<< >>)
    ELSE
    LET a == htlc_address.val
        utxos == ans.utxos.val
        tx_count == ans.tx_count.val
        current_balance == SumValues(utxos)
        is_watching_init == IF is_some(MapGet(w.init_watched_addresses, a))
                            THEN unwrap(MapGet(w.init_watched_addresses, a)) ELSE FALSE
        previous_balance == MapGet(w.watched_addresses, a)
        \* the end of the function: the balance is stored, Ok(()) returned
        Done(init_watched, swap, events) ==
            Polled("ok", MapInsert(w.watched_addresses, a, current_balance), init_watched,
                   swap, events)
        \* an event is handed to the handler; its error leaves through `?`
        Emit(event) ==
            LET handled == handle_event(event, ans.store_ok, w.swap) IN
            IF handled.st # "ok" THEN Failed(<<event>>)
            ELSE Done(MapInsert(w.init_watched_addresses, a, FALSE), handled.swap, <<event>>)
        Quiet == Done(MapInsert(w.init_watched_addresses, a, FALSE), w.swap, << >>)
        \* HtlcFunded for a funding UTXO, after get_transaction_details
        Funded(funding_utxo, amount_sats) ==
            IF get_transaction_details(ans.details).st # "ok" THEN Failed(<< >>)
            ELSE Emit(Event("HtlcFunded", o.id, funding_utxo.txid, EmptyStr, amount_sats))
        spending_tx == get_spending_transaction(ans.txs)
        analysis == analyze_spending_transaction(ans.tx, o.hashlock)
    IN
    IF utxos = << >> THEN
        IF tx_count = 0 THEN
            Done(IF ~is_watching_init THEN MapInsert(w.init_watched_addresses, a, TRUE)
                 ELSE w.init_watched_addresses, w.swap, << >>)
        ELSE IF tx_count = 2 THEN
            IF spending_tx.st # "ok" THEN Failed(<< >>)
            ELSE IF is_none(spending_tx.val) THEN Quiet
            ELSE IF analysis.st # "ok" THEN Failed(<< >>)
            ELSE IF is_some(analysis.val)
            THEN Emit(Event("HtlcClaimed", o.id, unwrap(spending_tx.val), unwrap(analysis.val), 0))
            ELSE Emit(Event("HtlcRefunded", o.id, unwrap(spending_tx.val), EmptyStr, 0))
        ELSE Done(w.init_watched_addresses, w.swap, << >>)
    ELSE IF is_some(previous_balance) THEN
        IF current_balance > unwrap(previous_balance) THEN
            LET increase == current_balance - unwrap(previous_balance)
                funding_utxo == FindValue(utxos, increase)
            IN  IF is_some(funding_utxo) THEN Funded(unwrap(funding_utxo), increase)
                ELSE Quiet
        ELSE Quiet
    ELSE Funded(utxos[1], utxos[1].value)

----------------------------------------------------------------------------
(* Inputs of the HTLC and wallet specifications.                           *)

MaxTimelock == 2

MaxHeight == 3

MaxUtxos == 1

\* Every BitcoinHTLC that BitcoinHTLC::new can return.
Htlcs == [secret_hash : 0..(MaxBytes + 1), initiator_pubkey : Keys, redeemer_pubkey : Keys,
          timelock : 0..MaxTimelock, network : {"regtest"}]

\* UTXO values around the dust boundary of a refund or redeem output, whose
\* fee is calculate_fee(1, 1, 20).
UtxoValues == {calculate_fee(1, 1, 20) + P2WPKH_DUST_THRESHOLD - 1,
               calculate_fee(1, 1, 20) + DEFAULT_DUST_THRESHOLD}

\* A UTXO as the indexer reports it: an unconfirmed one has no block height,
\* which deserialises to 0.
Utxos == [txid : {"fund"}, value : UtxoValues, confirmed : {TRUE}, block_height : 1..MaxHeight]
         \cup [txid : {"fund"}, value : UtxoValues, confirmed : {FALSE}, block_height : {0}]

RECURSIVE SeqsUpTo(_, _)
SeqsUpTo(S, n) ==
    IF n = 0 THEN {<< >>}
    ELSE LET shorter == SeqsUpTo(S, n - 1) IN
         shorter \cup {Append(q, x) : q \in {r \in shorter : Len(r) = n - 1}, x \in S}

WalletEnvs == [utxos : SeqsUpTo(Utxos, MaxUtxos), height : 0..(MaxHeight + MaxTimelock)]

NoHtlc == [secret_hash |-> 0, initiator_pubkey |-> "kA", redeemer_pubkey |-> "kA",
           timelock |-> 0, network |-> "regtest"]

NoEnv == [utxos |-> << >>, height |-> 0]

NoneCalled == [op |-> "none"]

ResolverIdle == order = << >> /\ action = "none"

HtlcIdle == htlc = NoHtlc /\ hcall = NoneCalled /\ hres = NoCall

WalletIdle == wenv = NoEnv /\ wcall = NoneCalled /\ wres = NoCall

NoIteration == [order_id |-> 0, resolved |-> "none", action |-> "none", lock_time |-> 0,
                htlc_utxos |-> NotRequested, height |-> NotRequested, broadcast |-> "none"]

ExecIdle ==
    /\ pending = << >>
    /\ pc = "idle"
    /\ idx = 0
    /\ tick = "none"
    /\ last = NoIteration
    /\ broadcasts = << >>
    /\ initiated = {}

\* The swap as order matching stores it: no transition recorded.
NewSwap ==
    [initiate_tx_hash |-> None, filled_amount |-> 0, initiate_block_number |-> None,
     redeem_tx_hash |-> None, redeem_block_number |-> None, secret |-> EmptyStr,
     refund_tx_hash |-> None, refund_block_number |-> None]

\* An address nothing was ever sent to.
EmptyChain == [utxos |-> << >>, before |-> << >>, tx_count |-> 0, txs |-> << >>, spend |-> << >>]

NoOrder == [id |-> "none", hashlock |-> NotHex, recipient_pubkey |-> "kA",
            refund_pubkey |-> "kA", timelock |-> 0]

NoView == [chain |-> EmptyChain, fails |-> "none"]

NoPoll == [st |-> "none", view |-> NoView, replay |-> FALSE, undelivered |-> << >>,
           events |-> << >>]

\* BitcoinWatcher::new: both maps empty.
NewWatcher ==
    /\ watched_addresses = EmptyMap
    /\ init_watched_addresses = EmptyMap
    /\ poll = NoPoll
    /\ polls = 0

WatcherIdle ==
    /\ worder = NoOrder
    /\ chain = EmptyChain
    /\ swap_doc = NewSwap
    /\ NewWatcher

\* The ids of the orders the watcher's store can hold.
CycleIds == {"swap1", "swap2", "swap3"}

\* No watch_cycle has run: nothing was paid to any order's address (stage 0)
\* and no swap has a transition recorded.
NoCycle == [pc |-> "idle", orders |-> << >>, i |-> 0, result |-> "none", cycles |-> 0,
            stage |-> [id \in CycleIds |-> 0], swaps |-> [id \in CycleIds |-> NewSwap]]

CycleIdle == cycle = NoCycle

\* No submit_tx call has been made.
NoSubmit == [pc |-> "idle", tx |-> "none", attempts |-> 0, last_error |-> None, posts |-> << >>,
             result |-> NoCall]

SubmitIdle == submit = NoSubmit

StoreIdle == htlc_params = EmptyMap /\ scall = NoneCalled

----------------------------------------------------------------------------
(* HTLC specification: redeem and refund called on every BitcoinHTLC.      *)

\* The HTLCs on every network.
NetHtlcs == [secret_hash : 0..(MaxBytes + 1), initiator_pubkey : Keys, redeemer_pubkey : Keys,
             timelock : 0..MaxTimelock, network : Networks]

InitHtlc ==
    /\ htlc \in NetHtlcs
    /\ hcall = NoneCalled
    /\ hres = NoCall
    /\ ResolverIdle
    /\ WalletIdle
    /\ ExecIdle
    /\ StoreIdle
    /\ CycleIdle
    /\ SubmitIdle
    /\ WatcherIdle

CallRedeem ==
    /\ \E secret \in Strs :
          /\ hcall' = [op |-> "redeem", secret |-> secret]
          /\ hres' = redeem(htlc, secret)
    /\ UNCHANGED <<htlc, resolverVars, walletVars, execVars, watcherVars, cycleVars, submitVars, storeVars>>

CallRefund ==
    /\ hcall' = [op |-> "refund"]
    /\ hres' = refund(htlc)
    /\ UNCHANGED <<htlc, resolverVars, walletVars, execVars, watcherVars, cycleVars, submitVars, storeVars>>

\* The HTLCs that have an address.
AddressedHtlcs == {o \in NetHtlcs : address(o).st = "ok"}

\* One call of address on the HTLC, after whatever was called on it before,
\* and one on another HTLC that has an address.
CallAddress ==
    /\ hcall.op # "address"
    /\ \E other \in AddressedHtlcs :
          /\ hcall' = [op |-> "address", other |-> other, other_address |-> address(other)]
          /\ hres' = address(htlc)
    /\ UNCHANGED <<htlc, resolverVars, walletVars, execVars, watcherVars, cycleVars, submitVars, storeVars>>

NextHtlc == CallRedeem \/ CallRefund \/ CallAddress

SpecHtlc == InitHtlc /\ [][NextHtlc]_vars

----------------------------------------------------------------------------
(* Wallet specification: refund_htlc called on every HTLC and indexer view.*)

\* The HTLCs the wallet is called with: every key pair and timelock.
WalletHtlcs == {h \in Htlcs : h.secret_hash = Sha256(1)}

InitWallet ==
    /\ htlc \in WalletHtlcs
    /\ hcall = NoneCalled
    /\ hres = NoCall
    /\ wenv \in WalletEnvs
    /\ wcall = NoneCalled
    /\ wres = NoCall
    /\ ResolverIdle
    /\ ExecIdle
    /\ StoreIdle
    /\ CycleIdle
    /\ SubmitIdle
    /\ WatcherIdle

\* One call of refund_htlc; each indexer request may fail.
CallRefundHtlc ==
    /\ wcall = NoneCalled
    /\ \E refund_script \in ScriptKinds, utxos_ok \in BOOLEAN, height_ok \in BOOLEAN :
          LET utxos == IF utxos_ok THEN Ok(wenv.utxos) ELSE Err("request error")
              height == IF height_ok THEN Ok(wenv.height) ELSE Err("request error")
          IN  /\ wcall' = [op |-> "refund_htlc", refund_script |-> refund_script,
                           utxos |-> IF address(htlc).st = "ok" THEN utxos ELSE NotRequested,
                           height |-> IF address(htlc).st = "ok" /\ utxos.st = "ok" /\ utxos.val # << >>
                                      THEN height ELSE NotRequested]
              /\ wres' = refund_htlc(htlc, refund_script, utxos, height)
    /\ UNCHANGED <<htlc, hcall, hres, wenv, resolverVars, execVars, watcherVars, cycleVars, submitVars, storeVars>>

NextWallet == CallRefundHtlc

SpecWallet == InitWallet /\ [][NextWallet]_vars

----------------------------------------------------------------------------
(* Resolver specification: determine_action applied to every MatchedOrder. *)

InitResolver ==
    /\ order \in MatchedOrders
    /\ action = "none"
    /\ HtlcIdle
    /\ WalletIdle
    /\ ExecIdle
    /\ StoreIdle
    /\ CycleIdle
    /\ SubmitIdle
    /\ WatcherIdle

\* One call of determine_action on the order at hand.
Determine ==
    /\ action = "none"
    /\ action' = determine_action(order)
    /\ UNCHANGED <<order, htlcVars, walletVars, execVars, watcherVars, cycleVars, submitVars, storeVars>>

NextResolver == Determine

SpecResolver == InitResolver /\ [][NextResolver]_vars

----------------------------------------------------------------------------
(* Executor specification: process_pending_orders, tick after tick.        *)

MaxOrders == 2

\* A pending order, reduced to the fields the mapper reads.
ExecOrder(initiate, secret, src_redeem, dst_refund, redeemer, recipient, amount) ==
    [create_order |-> [create_id |-> 0, bitcoin_optional_recipient |-> recipient,
                       destination_amount |-> amount],
     source_swap |-> [redeem_tx_hash |-> src_redeem],
     destination_swap |-> [initiate_tx_hash |-> initiate, redeem_tx_hash |-> None,
                           refund_tx_hash |-> dst_refund, secret |-> secret,
                           secret_hash |-> hex_encode(Sha256(1)), timelock |-> DefaultTimelock,
                           initiator |-> "kA", redeemer |-> redeemer]]

\* The orders get_pending_orders returns, one for each way map can go: Init,
\* Redeem, Refund with equal and with different keys, a secret that is not
\* hex, nothing to do.
ExecOrders ==
    { ExecOrder(None, HexStr(1, FALSE), None, None, "kB", None, AmountStr(1000)),
      ExecOrder(Some("tx"), HexStr(1, FALSE), None, None, "kB", None, AmountStr(1000)),
      ExecOrder(Some("tx"), EmptyStr, None, None, "kA", None, AmountStr(1000)),
      ExecOrder(Some("tx"), HexStr(1, FALSE), Some("tx"), None, "kB", Some("p2tr_addr"), NotAnAmount),
      ExecOrder(Some("tx"), NotHex, Some("tx"), None, "kA", Some("garbage"), AmountStr(1000)),
      ExecOrder(Some("tx"), HexStr(1, FALSE), Some("tx"), Some("tx"), "kB", None, AmountStr(1000)) }

\* The Vec get_pending_orders returns; create_id is the position in it.
WithIds(bodies) ==
    [i \in 1..Len(bodies) |->
        [bodies[i] EXCEPT !.create_order = [bodies[i].create_order EXCEPT !.create_id = i]]]

\* The indexer's answers during one loop iteration: the UTXOs of the
\* order's HTLC address, the tip height, the wallet's UTXOs, and whether
\* the broadcast (with its retries) goes through.
ExecHtlcUtxos ==
    { [txid |-> "fund", value |-> 10000, confirmed |-> TRUE, block_height |-> 1],
      [txid |-> "fund", value |-> 10000, confirmed |-> FALSE, block_height |-> 0] }

\* What the indexer holds, and which of the iteration's requests fails.
ExecChains ==
    [htlc_utxos : SeqsUpTo(ExecHtlcUtxos, 1),
     height : {DefaultTimelock, DefaultTimelock + 1},
     wallet_utxos : {<< [txid |-> "coin", value |-> 3000, confirmed |-> TRUE, block_height |-> 1] >>},
     fails : {"none", "get_utxos", "get_current_block_height", "submit_tx"}]

Answer(ok, v) == IF ok THEN Ok(v) ELSE Err("request error")

ExecEnv(c) ==
    [htlc_utxos |-> Answer(c.fails # "get_utxos", c.htlc_utxos),
     height |-> Answer(c.fails # "get_current_block_height", c.height),
     wallet_utxos |-> Answer(c.fails # "get_utxos", c.wallet_utxos),
     broadcast_ok |-> c.fails # "submit_tx"]

InitExec ==
    /\ ExecIdle
    /\ StoreIdle
    /\ CycleIdle
    /\ SubmitIdle
    /\ WatcherIdle
    /\ ResolverIdle
    /\ HtlcIdle
    /\ WalletIdle

\* process_pending_orders up to the loop: get_pending_orders fails.
TickFetchFails ==
    /\ pc = "idle"
    /\ pending' = << >>
    /\ idx' = 0
    /\ last' = NoIteration
    /\ broadcasts' = << >>
    /\ tick' = "err"
    /\ UNCHANGED <<pc, initiated, resolverVars, htlcVars, walletVars, watcherVars, cycleVars, submitVars, storeVars>>

\* process_pending_orders up to the loop: get_pending_orders answers; an
\* empty answer ends the tick.
TickStart ==
    /\ pc = "idle"
    /\ \E bodies \in SeqsUpTo(ExecOrders, MaxOrders) :
          /\ pending' = WithIds(bodies)
          /\ pc' = IF bodies = << >> THEN "idle" ELSE "loop"
          /\ tick' = IF bodies = << >> THEN "ok" ELSE "none"
    /\ idx' = 0
    /\ last' = NoIteration
    /\ broadcasts' = << >>
    /\ UNCHANGED <<initiated, resolverVars, htlcVars, walletVars, watcherVars, cycleVars, submitVars, storeVars>>

\* One iteration of the for loop: map the order, broadcast what map made;
\* a broadcast error leaves process_pending_orders through `?`, a panic
\* unwinds it, the last iteration ends the tick.
ProcessOrder ==
    /\ pc = "loop"
    /\ idx < Len(pending)
    /\ \E indexed \in ExecChains :
          \E mapped \in {map(pending[idx + 1], ExecEnv(indexed))} :
             LET o == pending[idx + 1]
                 sends == mapped.st = "ok" /\ is_broadcast(mapped.val)
                 broadcast == IF ~sends THEN "none"
                              ELSE IF indexed.fails # "submit_tx" THEN "ok" ELSE "err"
                 read == determine_action(o) = "Refund"
             IN  /\ last' = [order_id |-> o.create_order.create_id,
                             resolved |-> determine_action(o),
                             action |-> IF mapped.st = "ok" THEN mapped.val.kind ELSE mapped.st,
                             lock_time |-> IF sends THEN mapped.val.transaction.lock_time ELSE 0,
                             htlc_utxos |-> IF read THEN ExecEnv(indexed).htlc_utxos
                                            ELSE NotRequested,
                             height |-> IF read THEN ExecEnv(indexed).height ELSE NotRequested,
                             broadcast |-> broadcast]
                 /\ broadcasts' = IF sends
                                  THEN Append(broadcasts, [order_id |-> o.create_order.create_id,
                                                            kind |-> mapped.val.kind,
                                                            ok |-> broadcast = "ok"])
                                  ELSE broadcasts
                 /\ initiated' = IF sends /\ mapped.val.kind = "Init" /\ broadcast = "ok"
                                 THEN initiated \cup {o.create_order.create_id}
                                 ELSE initiated
                 /\ pc' = IF mapped.st = "panic" THEN "panicked"
                          ELSE IF broadcast = "err" \/ idx + 1 = Len(pending) THEN "idle"
                          ELSE "loop"
                 /\ tick' = IF mapped.st = "panic" THEN "none"
                            ELSE IF broadcast = "err" THEN "err"
                            ELSE IF idx + 1 = Len(pending) THEN "ok"
                            ELSE "none"
    /\ idx' = idx + 1
    /\ UNCHANGED <<pending, resolverVars, htlcVars, walletVars, watcherVars, cycleVars, submitVars, storeVars>>

NextExec == TickFetchFails \/ TickStart \/ ProcessOrder

SpecExec == InitExec /\ [][NextExec]_vars

----------------------------------------------------------------------------
(* Watcher specification: watch_order_htlc called again and again on one   *)
(* order while its HTLC address is funded and spent.                       *)

MaxPolls == 2

MaxTxs == 2

\* The orders polled: the hashlock in lower-case hex, in upper-case hex, and
\* not hex at all.
WatchOrders ==
    [id : {"swap1"}, hashlock : {HexStr(Sha256(1), FALSE), HexStr(Sha256(1), TRUE), NotHex},
     recipient_pubkey : {"kB"}, refund_pubkey : {"kA"}, timelock : {DefaultTimelock}]

WatchValues == {1000, 2000}

\* The first n elements of a witness stack whose element[1] is e.
Stack(n, e) ==
    SubSeq(<<JsonStr(HexStr(MaxBytes, FALSE)), e, JsonStr(HexStr(MaxBytes, FALSE)),
             JsonStr(HexStr(MaxBytes, FALSE)), JsonStr(HexStr(MaxBytes, FALSE))>>, 1, n)

\* The inputs a spending transaction can have: a redeem witness with the
\* preimage, with another byte string, with something that is not hex or not
\* a string, a refund witness (3 elements), a longer witness, no witness.
WatchInputs ==
    {[witness |-> Some(Stack(4, JsonStr(s)))] : s \in {HexStr(1, FALSE), HexStr(0, FALSE), NotHex}}
    \cup {[witness |-> Some(Stack(4, JsonNumber))],
          [witness |-> Some(Stack(3, JsonStr(HexStr(1, FALSE))))],
          [witness |-> Some(Stack(5, JsonStr(HexStr(1, FALSE))))],
          [witness |-> None]}

\* The input lists a spending transaction can have: one input of any kind,
\* or an input without witness followed by a redeem input.
WatchSpends ==
    {<<input>> : input \in WatchInputs}
    \cup {<<[witness |-> None], [witness |-> Some(Stack(4, JsonStr(s)))]>> :
             s \in {HexStr(1, FALSE), HexStr(0, FALSE)}}

\* Which request of a poll fails, and how; "utxos stale" is no failure: the
\* UTXO request is answered before the address's latest transaction arrives
\* and the requests after it are answered after.
WatchFails ==
    {"none", "utxos stale", "get_utxos", "get_address_info", "txs send error", "txs non-2xx",
     "tx send error", "tx non-2xx", "store"}

\* The answers a poll gets from the indexer and the store for a chain state.
WatchAnswers(c, fails) ==
    [utxos |-> Answer(fails # "get_utxos", IF fails = "utxos stale" THEN c.before ELSE c.utxos),
     tx_count |-> Answer(fails # "get_address_info", c.tx_count),
     txs |-> CASE fails = "txs send error" -> Http("send error", << >>)
               [] fails = "txs non-2xx" -> Http("non-2xx", << >>)
               [] OTHER -> Http("2xx", c.txs),
     tx |-> CASE fails = "tx send error" -> Http("send error", << >>)
              [] fails = "tx non-2xx" -> Http("non-2xx", << >>)
              [] OTHER -> Http("2xx", c.spend),
     details |-> CASE fails = "tx send error" -> Http("send error", << >>)
                   [] fails = "tx non-2xx" -> Http("non-2xx", << >>)
                   [] OTHER -> Http("2xx", << >>),
     store_ok |-> fails # "store"]

InitWatcher ==
    /\ worder \in WatchOrders
    /\ chain = EmptyChain
    /\ swap_doc = NewSwap
    /\ NewWatcher
    /\ ResolverIdle
    /\ HtlcIdle
    /\ WalletIdle
    /\ ExecIdle
    /\ StoreIdle
    /\ CycleIdle
    /\ SubmitIdle

\* A transaction pays to the HTLC address.
ChainFund ==
    /\ chain.tx_count < MaxTxs
    /\ \E value \in WatchValues :
          chain' = [chain EXCEPT
                       !.utxos = Append(@, [txid |-> chain.tx_count + 1, value |-> value,
                                            confirmed |-> TRUE, block_height |-> 1]),
                       !.before = chain.utxos,
                       !.tx_count = @ + 1,
                       !.txs = <<chain.tx_count + 1>> \o @]
    /\ UNCHANGED <<worder, watched_addresses, init_watched_addresses, swap_doc, poll, polls,
                   resolverVars, htlcVars, walletVars, execVars, cycleVars, submitVars, storeVars>>

\* A transaction spends what the HTLC address holds.
ChainSpend ==
    /\ chain.tx_count < MaxTxs
    /\ chain.utxos # << >>
    /\ \E vin \in WatchSpends :
          chain' = [chain EXCEPT !.utxos = << >>,
                                 !.before = chain.utxos,
                                 !.tx_count = @ + 1,
                                 !.txs = <<chain.tx_count + 1>> \o @,
                                 !.spend = vin]
    /\ UNCHANGED <<worder, watched_addresses, init_watched_addresses, swap_doc, poll, polls,
                   resolverVars, htlcVars, walletVars, execVars, cycleVars, submitVars, storeVars>>

\* One call of watch_order_htlc on the order; replay tells whether the call
\* before it completed and saw the same chain state and answers, undelivered
\* holds the event of the call before it if its delivery failed and the
\* chain state is still the same.
Poll ==
    /\ polls < MaxPolls
    /\ \E fails \in WatchFails :
          LET w == [watched_addresses |-> watched_addresses,
                    init_watched_addresses |-> init_watched_addresses, swap |-> swap_doc]
              r == watch_order_htlc(w, worder, WatchAnswers(chain, fails))
          IN  /\ watched_addresses' = r.watched_addresses
              /\ init_watched_addresses' = r.init_watched_addresses
              /\ swap_doc' = r.swap
              /\ poll' = [st |-> r.st,
                          view |-> [chain |-> chain, fails |-> fails],
                          replay |-> poll.st = "ok" /\ poll.view = [chain |-> chain, fails |-> fails],
                          undelivered |-> IF /\ poll.st = "err"
                                             /\ poll.view.fails = "store"
                                             /\ poll.view.chain = chain
                                          THEN poll.events ELSE << >>,
                          events |-> r.events]
    /\ polls' = polls + 1
    /\ UNCHANGED <<worder, chain, resolverVars, htlcVars, walletVars, execVars, cycleVars, submitVars, storeVars>>

NextWatcher == ChainFund \/ ChainSpend \/ Poll

SpecWatcher == InitWatcher /\ [][NextWatcher]_vars

----------------------------------------------------------------------------
(* Funding specification: initiate_htlc and get_utxos_for_amount called on *)
(* the UTXOs of the wallet's own address.                                  *)

MaxFundUtxos == 2

FundAmount == 1000

\* UTXO values around the cases of initiate_htlc for FundAmount and one
\* input: below the amount, the amount itself, the amount plus the fee, and
\* the amount plus the fee plus a change just below and just at the P2WPKH
\* dust threshold.
FundValues ==
    {FundAmount \div 2, FundAmount,
     FundAmount + calculate_fee(1, 2, 10),
     FundAmount + calculate_fee(1, 2, 10) + P2WPKH_DUST_THRESHOLD - 1,
     FundAmount + calculate_fee(1, 2, 10) + P2WPKH_DUST_THRESHOLD}

FundUtxos == [txid : {"fund"}, value : FundValues, confirmed : {TRUE}, block_height : {1}]

FundAmounts == {FundAmount, FundAmount + 1}

InitFunding ==
    /\ htlc \in WalletHtlcs
    /\ hcall = NoneCalled
    /\ hres = NoCall
    /\ wenv \in [utxos : SeqsUpTo(FundUtxos, MaxFundUtxos), height : {0}]
    /\ wcall = NoneCalled
    /\ wres = NoCall
    /\ ResolverIdle
    /\ ExecIdle
    /\ StoreIdle
    /\ CycleIdle
    /\ SubmitIdle
    /\ WatcherIdle

\* One call of get_utxos_for_amount; the indexer request may fail.
CallGetUtxosForAmount ==
    /\ wcall = NoneCalled
    /\ \E amount \in FundAmounts, utxos_ok \in BOOLEAN :
          /\ wcall' = [op |-> "get_utxos_for_amount", amount |-> amount,
                       utxos |-> Answer(utxos_ok, wenv.utxos)]
          /\ wres' = get_utxos_for_amount(Answer(utxos_ok, wenv.utxos), amount)
    /\ UNCHANGED <<htlc, hcall, hres, wenv, resolverVars, execVars, watcherVars, cycleVars, submitVars, storeVars>>

\* One call of initiate_htlc; the indexer request may fail.
CallInitiateHtlc ==
    /\ wcall = NoneCalled
    /\ \E amount \in FundAmounts, utxos_ok \in BOOLEAN :
          /\ wcall' = [op |-> "initiate_htlc", amount |-> amount,
                       utxos |-> IF address(htlc).st = "ok" THEN Answer(utxos_ok, wenv.utxos)
                                 ELSE NotRequested]
          /\ wres' = initiate_htlc(htlc, amount, Answer(utxos_ok, wenv.utxos))
    /\ UNCHANGED <<htlc, hcall, hres, wenv, resolverVars, execVars, watcherVars, cycleVars, submitVars, storeVars>>

NextFunding == CallGetUtxosForAmount \/ CallInitiateHtlc

SpecFunding == InitFunding /\ [][NextFunding]_vars

----------------------------------------------------------------------------
(* Cycle specification: watch_cycle run again and again over the active    *)
(* orders, one call of watch_order_htlc at a time.                         *)

MaxCycles == 2

MaxCycleOrders == 2

\* The active orders: two with different HTLC addresses, and one whose
\* hashlock is not hex, so that its address cannot be derived.
CycleOrder(id) ==
    [id |-> id,
     hashlock |-> IF id = "swap3" THEN NotHex ELSE HexStr(Sha256(1), FALSE),
     recipient_pubkey |-> "kB", refund_pubkey |-> "kA",
     timelock |-> IF id = "swap2" THEN DefaultTimelock + 1 ELSE DefaultTimelock]

\* What get_active_orders can return: lists of different orders.
CycleOrderLists ==
    {l \in SeqsUpTo({CycleOrder(id) : id \in CycleIds}, MaxCycleOrders) :
        \A j, k \in 1..Len(l) : j # k => l[j] # l[k]}

\* What the chain holds for an order's address at each stage: nothing, the
\* funding, the funding spent by a redeem.
CycleChain(stage) ==
    LET funding == [txid |-> 1, value |-> 1000, confirmed |-> TRUE, block_height |-> 1] IN
    CASE stage = 0 -> EmptyChain
      [] stage = 1 -> [utxos |-> <<funding>>, before |-> << >>, tx_count |-> 1, txs |-> <<1>>,
                       spend |-> << >>]
      [] OTHER -> [utxos |-> << >>, before |-> <<funding>>, tx_count |-> 2, txs |-> <<2, 1>>,
                   spend |-> <<[witness |-> Some(Stack(4, JsonStr(HexStr(1, FALSE))))]>>]

InitCycle ==
    /\ CycleIdle
    /\ SubmitIdle
    /\ ResolverIdle
    /\ HtlcIdle
    /\ WalletIdle
    /\ ExecIdle
    /\ StoreIdle
    /\ WatcherIdle

\* watch_cycle up to the loop: get_active_orders fails.
CycleFetchFails ==
    /\ cycle.pc = "idle"
    /\ cycle.cycles < MaxCycles
    /\ cycle' = [cycle EXCEPT !.orders = << >>, !.i = 0, !.result = "err", !.cycles = @ + 1]
    /\ UNCHANGED <<resolverVars, htlcVars, walletVars, execVars, watcherVars, submitVars, storeVars>>

\* watch_cycle up to the loop: cleanup_expired_htlcs finds nothing in the
\* local HTLC table (nothing ever adds to it), get_active_orders answers.
\* With no order the cycle is over: the lists of pending and funded HTLCs
\* of the local table are empty.
CycleStart ==
    /\ cycle.pc = "idle"
    /\ cycle.cycles < MaxCycles
    /\ \E orders \in CycleOrderLists :
          cycle' = [cycle EXCEPT !.orders = orders, !.i = 0, !.cycles = @ + 1,
                                 !.pc = IF orders = << >> THEN "idle" ELSE "orders",
                                 !.result = IF orders = << >> THEN "ok" ELSE "none"]
    /\ UNCHANGED <<resolverVars, htlcVars, walletVars, execVars, watcherVars, submitVars, storeVars>>

\* One iteration of the loop over the orders: watch_order_htlc on the next
\* order, whose address has reached some stage by now; an error leaves
\* watch_cycle through `?`, the last iteration is followed by the loops
\* over the (empty) lists of pending and funded HTLCs and ends the cycle.
CyclePoll ==
    /\ cycle.pc = "orders"
    /\ cycle.i < Len(cycle.orders)
    /\ \E stage \in 0..2, fails \in WatchFails :
          /\ stage >= cycle.stage[cycle.orders[cycle.i + 1].id]
          /\ \E r \in {watch_order_htlc([watched_addresses |-> watched_addresses,
                                          init_watched_addresses |-> init_watched_addresses,
                                          swap |-> cycle.swaps[cycle.orders[cycle.i + 1].id]],
                                         cycle.orders[cycle.i + 1],
                                         WatchAnswers(CycleChain(stage), fails))} :
                /\ watched_addresses' = r.watched_addresses
                /\ init_watched_addresses' = r.init_watched_addresses
                /\ cycle' = [cycle EXCEPT
                                !.stage[cycle.orders[cycle.i + 1].id] = stage,
                                !.swaps[cycle.orders[cycle.i + 1].id] = r.swap,
                                !.i = @ + 1,
                                !.pc = IF r.st = "err" \/ cycle.i + 1 = Len(cycle.orders)
                                       THEN "idle" ELSE "orders",
                                !.result = IF r.st = "err" THEN "err"
                                           ELSE IF cycle.i + 1 = Len(cycle.orders) THEN "ok"
                                           ELSE "none"]
    /\ UNCHANGED <<worder, chain, swap_doc, poll, polls,
                   resolverVars, htlcVars, walletVars, execVars, submitVars, storeVars>>

NextCycle == CycleFetchFails \/ CycleStart \/ CyclePoll

SpecCycle == InitCycle /\ [][NextCycle]_vars

----------------------------------------------------------------------------
(* Broadcast specification: SimpleIndexer::submit_tx, one POST at a time.  *)

MAX_RETRIES == 3

\* What a POST can come to: the request fails to be sent or answered, or a
\* response arrives whose status is 2xx or not and whose body can be read
\* (text is the body) or cannot.
PostOutcomes ==
    {[send |-> "err", success |-> FALSE, text |-> None]}
    \cup {[send |-> "ok", success |-> success, text |-> text] :
             success \in BOOLEAN, text \in {None, Some("a"), Some("b")}}

\* anyhow!("req failed : {:#?}", err_msg)
ReqFailed(err_msg) == IF err_msg = "a" THEN "req failed : a" ELSE "req failed : b"

\* submit_tx returns: the call is over.
SubmitReturn(s, result) == [s EXCEPT !.pc = "done", !.result = result]

\* The end of a loop iteration that did not return: attempts is counted,
\* the loop goes on (after the sleep) while attempts < MAX_RETRIES and the
\* function returns the last error otherwise.
SubmitCounted(s, last_error) ==
    LET counted == [s EXCEPT !.attempts = @ + 1, !.last_error = Some(last_error)] IN
    IF counted.attempts < MAX_RETRIES THEN counted
    ELSE SubmitReturn(counted, Err(last_error))

\* One iteration of the while loop of submit_tx, whose POST comes to post.
submit_tx_attempt(s, post) ==
    LET posted == [s EXCEPT !.posts = Append(@, post)] IN
    IF post.send = "err" THEN SubmitCounted(posted, "request error")
    ELSE IF is_none(post.text) THEN SubmitReturn(posted, Err("body error"))
    ELSE IF post.success THEN SubmitReturn(posted, Ok(unwrap(post.text)))
    ELSE SubmitCounted(posted, ReqFailed(unwrap(post.text)))

InitSubmit ==
    /\ SubmitIdle
    /\ CycleIdle
    /\ ResolverIdle
    /\ HtlcIdle
    /\ WalletIdle
    /\ ExecIdle
    /\ StoreIdle
    /\ WatcherIdle

\* submit_tx is called on a transaction: attempts = 0, last_error = None.
SubmitCall ==
    /\ submit.pc \in {"idle", "done"}
    /\ \E tx \in {"tx1", "tx2"} :
          submit' = [pc |-> "loop", tx |-> tx, attempts |-> 0, last_error |-> None,
                     posts |-> << >>, result |-> NoCall]
    /\ UNCHANGED <<resolverVars, htlcVars, walletVars, execVars, watcherVars, cycleVars, storeVars>>

\* One POST of the running call and what follows it in the loop body.
SubmitAttempt ==
    /\ submit.pc = "loop"
    /\ submit.attempts < MAX_RETRIES
    /\ \E post \in PostOutcomes : submit' = submit_tx_attempt(submit, post)
    /\ UNCHANGED <<resolverVars, htlcVars, walletVars, execVars, watcherVars, cycleVars, storeVars>>

NextSubmit == SubmitCall \/ SubmitAttempt

SpecSubmit == InitSubmit /\ [][NextSubmit]_vars

----------------------------------------------------------------------------
(* Builder specification: the fee and dust policy and the three            *)
(* transaction builders called on one HTLC and the UTXOs of one address.   *)
(* The wallet keeps nothing from one call to the next, so a behaviour      *)
(* makes one call.                                                         *)

MaxFeeInputs == 2

MaxFeeOutputs == 2

FeeRates == {1, 10, 20}

\* Output values at and next to the three dust thresholds.
DustValues ==
    {0} \cup {t + d : t \in {P2WPKH_DUST_THRESHOLD, P2TR_DUST_THRESHOLD, DEFAULT_DUST_THRESHOLD},
                      d \in {-1, 0, 1}}

\* UTXO values that leave, after the redeem or refund fee, an output just
\* below and just at each dust threshold, and one value below the fee.
BuildValues ==
    {calculate_fee(1, 1, 20) \div 2}
    \cup {calculate_fee(1, 1, 20) + t - d :
             t \in {P2WPKH_DUST_THRESHOLD, P2TR_DUST_THRESHOLD, DEFAULT_DUST_THRESHOLD},
             d \in {0, 1}}

BuildUtxos == [txid : {"fund"}, value : BuildValues, confirmed : {TRUE}, block_height : {1}]

BuildEnvs == [utxos : {<< >>} \cup {<<u>> : u \in BuildUtxos}, height : 0..(MaxTimelock + 1)]

\* A witness stack as the indexer's /tx endpoint reports it: one lower-case
\* hex string per element.  Of the elements the builders push, the second of
\* a four-element stack is a byte string of the model; the signature, the
\* scripts and the control block serialise to bytes the model does not
\* compute.
WitnessJson(witness) ==
    [k \in 1..Len(witness) |->
        IF Len(witness) = 4 /\ k = 2 THEN JsonStr(hex_encode(witness[k]))
        ELSE JsonStr(HexStr(MaxBytes, FALSE))]

\* The answer of GET /tx/{txid} for a mined transaction: its inputs, each
\* with its witness.
IndexedTx(tx) ==
    Http("2xx", [k \in 1..Len(tx.input) |-> [witness |-> Some(WitnessJson(tx.input[k].witness))]])

InitBuilders ==
    /\ htlc \in WalletHtlcs
    /\ hcall = NoneCalled
    /\ hres = NoCall
    /\ wenv \in BuildEnvs
    /\ wcall = NoneCalled
    /\ wres = NoCall
    /\ ResolverIdle
    /\ ExecIdle
    /\ StoreIdle
    /\ CycleIdle
    /\ SubmitIdle
    /\ WatcherIdle

\* One call of is_dust.
CallIsDust ==
    /\ wcall = NoneCalled
    /\ \E value \in DustValues, script_pubkey \in ScriptKinds :
          /\ wcall' = [op |-> "is_dust", value |-> value, script_pubkey |-> script_pubkey]
          /\ wres' = Ok(is_dust(value, script_pubkey))
    /\ UNCHANGED <<htlc, hcall, hres, wenv, resolverVars, execVars, watcherVars, cycleVars, submitVars, storeVars>>

\* One call of calculate_fee.
CallCalculateFee ==
    /\ wcall = NoneCalled
    /\ \E inputs \in 0..MaxFeeInputs, outputs \in 0..MaxFeeOutputs, fee_rate \in FeeRates :
          /\ wcall' = [op |-> "calculate_fee", inputs |-> inputs, outputs |-> outputs,
                       fee_rate |-> fee_rate]
          /\ wres' = Ok(calculate_fee(inputs, outputs, fee_rate))
    /\ UNCHANGED <<htlc, hcall, hres, wenv, resolverVars, execVars, watcherVars, cycleVars, submitVars, storeVars>>

\* One call of redeem_htlc; the indexer request may fail.
CallRedeemHtlc ==
    /\ wcall = NoneCalled
    /\ \E secret \in Strs, recipient_script \in ScriptKinds, utxos_ok \in BOOLEAN :
          /\ wcall' = [op |-> "redeem_htlc", secret |-> secret,
                       recipient_script |-> recipient_script,
                       utxos |-> IF address(htlc).st = "ok" THEN Answer(utxos_ok, wenv.utxos)
                                 ELSE NotRequested]
          /\ wres' = redeem_htlc(htlc, secret, recipient_script, Answer(utxos_ok, wenv.utxos))
    /\ UNCHANGED <<htlc, hcall, hres, wenv, resolverVars, execVars, watcherVars, cycleVars, submitVars, storeVars>>

NextBuilders ==
    CallIsDust \/ CallCalculateFee \/ CallRedeemHtlc \/ CallRefundHtlc \/ CallInitiateHtlc

SpecBuilders == InitBuilders /\ [][NextBuilders]_vars

----------------------------------------------------------------------------
(* Store specification: the watcher's in-memory table of HTLC records and  *)
(* the calls that write it.                                                *)

MaxExpiry == 2

HtlcIds == {"htlc1", "htlc2"}

HtlcStatus == {"Pending", "Funded", "Claimed", "Refunded", "Expired"}

\* A BitcoinHtlcParams value, reduced to the fields the store reads or
\* writes; the others are carried along unchanged.
BitcoinHtlcParams == [status : HtlcStatus, expires_at : 0..MaxExpiry]

\* BitcoinStore::update_htlc_status: a missing id is left alone.
update_htlc_status(table, id, status) ==
    IF id \in DOMAIN table THEN [table EXCEPT ![id].status = status] ELSE table

\* Variant of cleanup_expired_htlcs that also expires a record whose expiry
\* time is the current time.
cleanup_expired_htlcs_inclusive(table, current_time) ==
    LET expired_ids == {id \in DOMAIN table :
                          table[id].expires_at <= current_time /\ table[id].status = "Pending"}
    IN  [id \in DOMAIN table |->
            IF id \in expired_ids THEN [table[id] EXCEPT !.status = "Expired"] ELSE table[id]]

\* BitcoinStore::cleanup_expired_htlcs
cleanup_expired_htlcs(table, current_time) ==
    LET expired_ids == {id \in DOMAIN table :
                          table[id].expires_at < current_time /\ table[id].status = "Pending"}
    IN  [id \in DOMAIN table |->
            IF id \in expired_ids THEN [table[id] EXCEPT !.status = "Expired"] ELSE table[id]]

InitStore ==
    /\ StoreIdle
    /\ ResolverIdle
    /\ HtlcIdle
    /\ WalletIdle
    /\ ExecIdle
    /\ CycleIdle
    /\ SubmitIdle
    /\ WatcherIdle

AddHtlcParams ==
    /\ \E id \in HtlcIds, params \in BitcoinHtlcParams :
          /\ htlc_params' = MapInsert(htlc_params, id, params)
          /\ scall' = [op |-> "add_htlc_params", id |-> id]
    /\ UNCHANGED <<resolverVars, htlcVars, walletVars, execVars, watcherVars, cycleVars, submitVars>>

UpdateHtlcStatus ==
    /\ \E id \in HtlcIds, status \in HtlcStatus :
          /\ htlc_params' = update_htlc_status(htlc_params, id, status)
          /\ scall' = [op |-> "update_htlc_status", id |-> id]
    /\ UNCHANGED <<resolverVars, htlcVars, walletVars, execVars, watcherVars, cycleVars, submitVars>>

\* watch_cycle's call of cleanup_expired_htlcs with the clock's time.
CleanupExpiredHtlcs ==
    /\ \E current_time \in 0..(MaxExpiry + 1) :
          /\ htlc_params' = cleanup_expired_htlcs(htlc_params, current_time)
          /\ scall' = [op |-> "cleanup_expired_htlcs", current_time |-> current_time]
    /\ UNCHANGED <<resolverVars, htlcVars, walletVars, execVars, watcherVars, cycleVars, submitVars>>

NextStore == AddHtlcParams \/ UpdateHtlcStatus \/ CleanupExpiredHtlcs

SpecStore == InitStore /\ [][NextStore]_vars

----------------------------------------------------------------------------
(* Properties of the action resolver (SpecResolver).                       *)

\* A transaction hash is recorded when it is present and not the empty string.
Recorded(h) == h # None /\ h[1] # ""

InitCond(o) == ~Recorded(o.destination_swap.initiate_tx_hash)

RedeemCond(o) == ~Recorded(o.source_swap.redeem_tx_hash) /\ o.destination_swap.secret # EmptyStr

RefundCond(o) ==
    ~Recorded(o.destination_swap.refund_tx_hash) /\ Recorded(o.destination_swap.initiate_tx_hash)

Resolved == action # "none"

\* C1: an order whose destination swap has no recorded initiate transaction
\* hash (absent or empty) resolves to Init, whatever its other fields hold.
C1_InitDominates ==
    (Resolved /\ ~Recorded(order.destination_swap.initiate_tx_hash)) => action = "Init"

\* C1 witness: Init is returned for an empty (not absent) initiate hash on an
\* order whose secret is revealed and whose redeem and refund hashes are set.
C1_Witness ==
    /\ action = "Init"
    /\ order.destination_swap.initiate_tx_hash = Some("")
    /\ order.destination_swap.secret # EmptyStr
    /\ order.source_swap.redeem_tx_hash = Some("tx")
    /\ order.destination_swap.refund_tx_hash = Some("tx")

\* C2: with the destination initiate transaction recorded, a non-empty
\* destination secret and no recorded source redeem transaction, the order
\* resolves to Redeem, whatever the refund fields hold.
C2_RedeemOnSecret ==
    (/\ Resolved
     /\ Recorded(order.destination_swap.initiate_tx_hash)
     /\ order.destination_swap.secret # EmptyStr
     /\ ~Recorded(order.source_swap.redeem_tx_hash)) => action = "Redeem"

\* C2 witness: Redeem is returned although the refund branch's condition
\* (no refund hash on the destination swap) holds as well.
C2_Witness ==
    /\ action = "Redeem"
    /\ order.destination_swap.refund_tx_hash = None
    /\ order.source_swap.redeem_tx_hash = Some("")

\* C4: an order whose destination swap has a recorded redeem transaction
\* never resolves to Refund.
C4_NoRefundAfterRedeem ==
    (Resolved /\ Recorded(order.destination_swap.redeem_tx_hash)) => action # "Refund"

\* C5: determine_action returns exactly one of the four actions, the first
\* of Init, Redeem, Refund whose condition holds, and NoOp exactly when
\* none of the three conditions holds.
C5_FirstMatchWins ==
    Resolved =>
        /\ action \in {"Init", "Redeem", "Refund", "NoOp"}
        /\ InitCond(order) => action = "Init"
        /\ (~InitCond(order) /\ RedeemCond(order)) => action = "Redeem"
        /\ (~InitCond(order) /\ ~RedeemCond(order) /\ RefundCond(order)) => action = "Refund"
        /\ action = "NoOp" <=> (~InitCond(order) /\ ~RedeemCond(order) /\ ~RefundCond(order))

\* C5 witness: two conditions hold at once and the earlier one wins, on an
\* order whose refund hash is the empty string.
C5_Witness ==
    /\ action = "Redeem"
    /\ RefundCond(order)
    /\ order.destination_swap.refund_tx_hash = Some("")

----------------------------------------------------------------------------
(* Properties of BitcoinHTLC::redeem (SpecHtlc).                           *)

\* The HTLC is well formed: its Taproot tree can be built from its keys.
WellFormed(h) == construct_taproot(h).st = "ok"

----------------------------------------------------------------------------
(* Properties of HTLCWallet::refund_htlc (SpecWallet).                     *)

\* refund_htlc has read a funding UTXO and the tip height from the indexer.
ReadHeights ==
    /\ wcall.op = "refund_htlc"
    /\ wcall.utxos.st = "ok"
    /\ wcall.height.st = "ok"

\* C6: when current_height < utxo_block_height + timelock, refund_htlc fails
\* with the timelock-not-expired error reporting the blocks remaining and
\* returns no transaction; when current_height >= utxo_block_height +
\* timelock, the boundary included, it does not fail with that error.
C6_TimelockGate ==
    ReadHeights =>
        LET current_height == wcall.height.val
            expiry == wcall.utxos.val[1].block_height + htlc.timelock
        IN  /\ current_height < expiry =>
                wres = ErrWith(TimelockNotExpired, expiry - current_height)
            /\ current_height >= expiry => wres.err # TimelockNotExpired

\* C6 witness: at the boundary height, with a positive timelock, refund_htlc
\* has returned a transaction.
C6_Witness ==
    /\ ReadHeights
    /\ htlc.timelock > 0
    /\ wcall.height.val = wcall.utxos.val[1].block_height + htlc.timelock
    /\ wres.st = "ok"

----------------------------------------------------------------------------
(* Properties of the executor tick (SpecExec).                             *)

\* The last iteration resolved a refund while the indexer reported the HTLC's
\* funding UTXO and a tip height before that UTXO's expiry height.
RefundBeforeExpiry ==
    /\ last.resolved = "Refund"
    /\ last.htlc_utxos.st = "ok"
    /\ last.htlc_utxos.val # << >>
    /\ last.height.st = "ok"
    /\ last.height.val < last.htlc_utxos.val[1].block_height + DefaultTimelock

\* C3: when determine_action resolves an order to Refund (initiate recorded,
\* no refund recorded, neither Init nor Redeem applies) and the tip height is
\* below the funding UTXO's block height plus the HTLC's timelock, map does
\* not produce an HTLCAction::Refund and the tick broadcasts no refund
\* transaction for that order.
C3_NoRefundBeforeExpiry ==
    RefundBeforeExpiry =>
        /\ last.action # "Refund"
        /\ last.broadcast = "none"
        /\ \A i \in 1..Len(broadcasts) : broadcasts[i].order_id # last.order_id

\* C3 happens: an order resolved to Refund met an unexpired timelock and
\* map made it a NoOp.
C3_Witness ==
    /\ RefundBeforeExpiry
    /\ last.action = "NoOp"
    /\ last.broadcast = "none"

\* The tick is over: process_pending_orders returned.
TickOver == pc = "idle" /\ tick \in {"ok", "err"}

\* C10: when process_pending_orders returns, it has taken up every order
\* get_pending_orders returned, whatever failed for the orders before.
C10_FailureIsolated ==
    TickOver => idx = Len(pending)

----------------------------------------------------------------------------
(* Properties of the watcher (SpecWatcher).                                *)

\* The last poll found zero UTXOs and exactly two transactions, every
\* request of it was answered, and the order's hashlock names a secret hash.
SpentPoll ==
    /\ poll.st # "none"
    /\ poll.view.fails = "none"
    /\ poll.view.chain.utxos = << >>
    /\ poll.view.chain.tx_count = 2
    /\ hex_decode(worder.hashlock).ok

\* The inputs of the spending transaction whose witness has at least 4
\* elements and whose element[1] SHA-256-hashes to the HTLC's secret hash.
RevealingInputs ==
    {i \in 1..Len(poll.view.chain.spend) :
        LET witness == poll.view.chain.spend[i].witness IN
        /\ is_some(witness)
        /\ Len(unwrap(witness)) >= 4
        /\ unwrap(witness)[2].json = "string"
        /\ hex_decode(unwrap(witness)[2].str).ok
        /\ Sha256(hex_decode(unwrap(witness)[2].str).bytes) = hex_decode(worder.hashlock).bytes}

\* C8: a poll that finds zero UTXOs and exactly two transactions returns Ok
\* and emits one event: HtlcClaimed with the preimage if the spending
\* transaction has an input whose witness has at least 4 elements and whose
\* element[1] hashes to the HTLC's secret hash, HtlcRefunded otherwise.
C8_ClaimedIffPreimageRevealed ==
    SpentPoll =>
        /\ poll.st = "ok"
        /\ Len(poll.events) = 1
        /\ IF RevealingInputs # {}
           THEN /\ poll.events[1].kind = "HtlcClaimed"
                /\ \E i \in RevealingInputs :
                      poll.events[1].preimage = unwrap(poll.view.chain.spend[i].witness)[2].str
           ELSE poll.events[1].kind = "HtlcRefunded"

\* C9: a call of watch_order_htlc that follows a completed call and sees the
\* same chain state emits no HtlcFunded, HtlcClaimed or HtlcRefunded event.
C9_ReplayEmitsNothing ==
    poll.replay => poll.events = << >>

\* C13: once a field group of the swap (initiate_*, redeem_* or refund_*)
\* holds a recorded value, no later step of the watcher changes that group.
C13_FieldGroupsWrittenOnce ==
    [][/\ is_some(swap_doc.initiate_tx_hash) =>
            /\ swap_doc'.initiate_tx_hash = swap_doc.initiate_tx_hash
            /\ swap_doc'.filled_amount = swap_doc.filled_amount
            /\ swap_doc'.initiate_block_number = swap_doc.initiate_block_number
       /\ is_some(swap_doc.redeem_tx_hash) =>
            /\ swap_doc'.redeem_tx_hash = swap_doc.redeem_tx_hash
            /\ swap_doc'.redeem_block_number = swap_doc.redeem_block_number
            /\ swap_doc'.secret = swap_doc.secret
       /\ is_some(swap_doc.refund_tx_hash) =>
            /\ swap_doc'.refund_tx_hash = swap_doc.refund_tx_hash
            /\ swap_doc'.refund_block_number = swap_doc.refund_block_number]_vars

\* C14: in every reachable state, a swap with a recorded redeem or refund
\* transaction also has a recorded initiate transaction.
C14_InitiateBeforeSettle ==
    (is_some(swap_doc.redeem_tx_hash) \/ is_some(swap_doc.refund_tx_hash)) =>
        is_some(swap_doc.initiate_tx_hash)

\* The address watch_order_htlc derives for the order, when it can.
AddressDerived ==
    create_htlc_address(worder.recipient_pubkey, worder.refund_pubkey, worder.hashlock,
                        worder.timelock).st = "ok"

HtlcAddress ==
    create_htlc_address(worder.recipient_pubkey, worder.refund_pubkey, worder.hashlock,
                        worder.timelock).val

\* The UTXO set the indexer answered the poll with.
PolledUtxos(view) == WatchAnswers(view.chain, view.fails).utxos

\* C15: when the delivery of an event to the handler fails, the call
\* returns the error and leaves the last-seen balance (and the funding
\* mark) of the address as it was; the next call over the same chain state
\* whose indexer requests are answered emits the same event again.
C15_FailedDeliveryIsRederived ==
    /\ [][(polls' # polls /\ poll'.view.fails = "store" /\ poll'.events # << >>) =>
            /\ poll'.st = "err"
            /\ watched_addresses' = watched_addresses
            /\ init_watched_addresses' = init_watched_addresses]_vars
    /\ []((poll.undelivered # << >> /\ poll.view.fails \in {"none", "store"}) =>
            poll.events = poll.undelivered)

\* C15 happens: the event whose delivery failed is emitted again by the next
\* call and delivered.
C15_Witness ==
    /\ poll.undelivered # << >>
    /\ poll.st = "ok"
    /\ poll.events = poll.undelivered
    /\ poll.events[1].kind = "HtlcFunded"

\* C16: a call emits HtlcFunded only when the polled UTXO set is non-empty
\* and either the address has no last-seen balance, and then the event
\* carries the first UTXO's txid and value, or the polled balance exceeds
\* the last-seen balance, and then the event carries the txid and value of
\* a UTXO whose value equals the increase.
C16_FundedOnIncrease ==
    [][(polls' # polls /\ poll'.events # << >> /\ poll'.events[1].kind = "HtlcFunded") =>
          LET utxos == PolledUtxos(poll'.view).val
              previous_balance == MapGet(watched_addresses, HtlcAddress)
              event == poll'.events[1]
          IN  /\ PolledUtxos(poll'.view).st = "ok"
              /\ utxos # << >>
              /\ IF is_none(previous_balance)
                 THEN /\ event.tx_hash = utxos[1].txid
                      /\ event.amount_sats = utxos[1].value
                 ELSE /\ SumValues(utxos) > unwrap(previous_balance)
                      /\ \E j \in 1..Len(utxos) :
                            /\ utxos[j].value = SumValues(utxos) - unwrap(previous_balance)
                            /\ event.tx_hash = utxos[j].txid
                            /\ event.amount_sats = utxos[j].value]_vars

\* C16 happens: a second payment to an address already seen funded is
\* reported with its own txid and value.
C16_Witness ==
    /\ poll.st = "ok"
    /\ poll.events # << >>
    /\ poll.events[1].kind = "HtlcFunded"
    /\ Len(poll.view.chain.utxos) = 2
    /\ poll.events[1].tx_hash = poll.view.chain.utxos[2].txid
    /\ poll.events[1].amount_sats = poll.view.chain.utxos[2].value

----------------------------------------------------------------------------
(* Properties of initiate_htlc and get_utxos_for_amount (SpecFunding).     *)

\* initiate_htlc has returned a funding transaction.
Initiated == wcall.op = "initiate_htlc" /\ wres.st = "ok"

\* The change initiate_htlc computes: what its inputs hold beyond the amount
\* and the fee estimated for that many inputs and two outputs.
Change ==
    LET inputs == get_utxos_for_amount(wcall.utxos, wcall.amount).val IN
    SumValues(inputs) - wcall.amount - calculate_fee(Len(inputs), 2, 10)

\* The outputs of the funding transaction when the change output is made
\* exactly if has_change: the HTLC output of value amount first.
FundingOutputs(has_change) ==
    /\ wres.val.output[1] = [value |-> wcall.amount, script_pubkey |-> address(htlc).val]
    /\ IF has_change
       THEN /\ Len(wres.val.output) = 2
            /\ wres.val.output[2] = [value |-> Change, script_pubkey |-> "p2wpkh"]
       ELSE Len(wres.val.output) = 1

RECURSIVE SumAt(_, _)
SumAt(us, S) ==
    IF S = {} THEN 0
    ELSE LET i == CHOOSE x \in S : TRUE IN us[i].value + SumAt(us, S \ {i})

\* The address holds UTXOs whose total covers the amount plus the fee
\* estimated for spending them into two outputs.
Coverable(us, amount) ==
    \E S \in SUBSET (1..Len(us)) :
        S # {} /\ SumAt(us, S) >= amount + calculate_fee(Cardinality(S), 2, 10)

InsufficientFunds == {"Not enough funds in UTXOs", "Insufficient funds"}

\* C19: on an answered UTXO request, initiate_htlc fails with an
\* insufficient-funds error exactly when the sender's UTXOs cannot cover
\* the amount plus the estimated fee, and returns a funding transaction
\* whenever they can.
C19_FailsOnlyWhenUncovered ==
    (wcall.op = "initiate_htlc" /\ wcall.utxos.st = "ok") =>
        /\ Coverable(wcall.utxos.val, wcall.amount) => wres.st = "ok"
        /\ (wres.st = "err" /\ wres.err \in InsufficientFunds)
              <=> ~Coverable(wcall.utxos.val, wcall.amount)

\* The shortest prefixes of the UTXO list whose total reaches the amount.
CoveringPrefixes(us, amount) ==
    {n \in 0..Len(us) :
        /\ SumValues(SubSeq(us, 1, n)) >= amount
        /\ \A m \in 0..(n - 1) : SumValues(SubSeq(us, 1, m)) < amount}

\* C20: on an answered UTXO request, get_utxos_for_amount returns the
\* shortest prefix of the UTXO list whose total reaches or exceeds the
\* amount, and fails with the insufficient-funds error exactly when the
\* total of all UTXOs is below the amount.
C20_ShortestCoveringPrefix ==
    (wcall.op = "get_utxos_for_amount" /\ wcall.utxos.st = "ok") =>
        /\ (wres.st = "err" /\ wres.err \in InsufficientFunds)
              <=> SumValues(wcall.utxos.val) < wcall.amount
        /\ wres.st = "ok" =>
              \E n \in CoveringPrefixes(wcall.utxos.val, wcall.amount) :
                  wres.val = SubSeq(wcall.utxos.val, 1, n)

----------------------------------------------------------------------------
(* Properties of submit_tx (SpecSubmit).                                   *)

\* The attempt failed: by a transport error or by a non-2xx status.
AttemptFailed(post) == post.send = "err" \/ ~post.success

\* The error of a failed attempt, when its text is known.
AttemptError(post) ==
    IF post.send = "err" THEN "request error"
    ELSE IF is_some(post.text) THEN ReqFailed(unwrap(post.text))
    ELSE "body error"

\* C12: submit_tx makes at most 3 POSTs and none after a 2xx response; when
\* it has returned, either its last POST got a 2xx response and it returned
\* that response's txid, or all 3 POSTs failed and it returned the error of
\* the last one (a failed POST before the third is followed by a retry).
C12_RetriesUpToThree ==
    LET n == Len(submit.posts) IN
    /\ n <= MAX_RETRIES
    /\ \A k \in 1..(n - 1) : AttemptFailed(submit.posts[k])
    /\ submit.pc = "done" =>
          /\ n >= 1
          /\ IF AttemptFailed(submit.posts[n])
             THEN /\ n = MAX_RETRIES
                  /\ submit.result = Err(AttemptError(submit.posts[n]))
             ELSE /\ submit.result.st = "ok"
                  /\ submit.result.val = submit.posts[n].text[1]

----------------------------------------------------------------------------
(* Properties of watch_cycle (SpecCycle).                                  *)

\* The cycle is over: watch_cycle returned.
CycleOver == cycle.pc = "idle" /\ cycle.result \in {"ok", "err"}

\* C11: when watch_cycle returns, it has polled every order
\* get_active_orders returned, whatever failed for the orders before.
C11_PollFailureIsolated ==
    CycleOver => cycle.i = Len(cycle.orders)

----------------------------------------------------------------------------
(* Properties of the fee and dust policy and of the transaction builders   *)
(* (SpecBuilders).                                                         *)

\* The dust threshold of a script kind, in satoshis.
DustThreshold(script_pubkey) ==
    CASE script_pubkey = "p2wpkh" -> 294
      [] script_pubkey = "p2tr" -> 330
      [] OTHER -> 546

\* C21: is_dust answers TRUE exactly for a value below the threshold of the
\* script kind (294 for P2WPKH, 330 for P2TR, 546 for any other script); a
\* value equal to the threshold is not dust.
C21_DustBelowThreshold ==
    wcall.op = "is_dust" =>
        wres.val = (wcall.value < DustThreshold(wcall.script_pubkey))

\* C21 happens: a P2TR output of exactly 330 satoshis is not dust.
C21_Witness ==
    /\ wcall.op = "is_dust"
    /\ wcall.script_pubkey = "p2tr"
    /\ wcall.value = 330
    /\ wres.val = FALSE

\* The fee in satoshis for a virtual size of 10 + 68 per input + 35 per
\* output.
FeeOf(inputs, outputs, fee_rate) == fee_rate * (10 + 68 * inputs + 35 * outputs)

Redeemed == wcall.op = "redeem_htlc" /\ wres.st = "ok"

Refunded == wcall.op = "refund_htlc" /\ wres.st = "ok"

\* What the inputs of the funding transaction hold.
FundingInput == SumValues(get_utxos_for_amount(wcall.utxos, wcall.amount).val)

\* C22: calculate_fee(inputs, outputs, fee_rate) is fee_rate * (10 + 68 *
\* inputs + 35 * outputs); the funding transaction is charged that fee for
\* its inputs and 2 outputs at rate 10 (it pays at least that when the
\* change is dropped), a redeem or refund transaction for 1 input and 1
\* output at rate 20, which is 2260 satoshis.
C22_FeeFormula ==
    /\ wcall.op = "calculate_fee" =>
          wres.val = FeeOf(wcall.inputs, wcall.outputs, wcall.fee_rate)
    /\ Initiated /\ Len(wres.val.output) = 2 =>
          FundingInput - wres.val.output[1].value - wres.val.output[2].value
             = FeeOf(Len(wres.val.input), 2, 10)
    /\ Initiated /\ Len(wres.val.output) = 1 =>
          FundingInput - wres.val.output[1].value >= FeeOf(Len(wres.val.input), 2, 10)
    /\ Redeemed \/ Refunded =>
          /\ wcall.utxos.val[1].value - wres.val.output[1].value = FeeOf(1, 1, 20)
          /\ FeeOf(1, 1, 20) = 2260

\* C22 happens: a funding transaction with a change output has been built.
C22_Witness == Initiated /\ Len(wres.val.output) = 2

\* C23: a transaction redeem_htlc returns has one input, the first UTXO of
\* the HTLC address, one output, a witness of four elements, and an output
\* value of the UTXO's value minus the fee of 1 input and 1 output at the
\* redeem rate.
C23_RedeemShape ==
    Redeemed =>
        /\ Len(wres.val.input) = 1
        /\ wres.val.input[1].previous_output = wcall.utxos.val[1].txid
        /\ Len(wres.val.output) = 1
        /\ Len(wres.val.input[1].witness) = 4
        /\ wres.val.output[1].value = wcall.utxos.val[1].value - FeeOf(1, 1, 20)
        /\ wres.val.output[1].script_pubkey = wcall.recipient_script

\* C23 happens: a redeem transaction has been built.
C23_Witness == Redeemed /\ wres.val.output[1].value = 546

C25_RefundShape ==
    Refunded =>
        LET witness == wres.val.input[1].witness IN
        /\ Len(wres.val.input) = 1
        /\ Len(wres.val.output) = 1
        /\ Len(witness) = 3
        /\ witness[1].sighash_type = "ALL"
        /\ witness[2] = refund_leaf(htlc.timelock, htlc.initiator_pubkey).val
        /\ witness[3] = [leaf |-> witness[2], tree |-> construct_taproot(htlc).val]
        /\ wres.val.lock_time = wcall.height.val
        /\ wcall.height.val >= wcall.utxos.val[1].block_height + htlc.timelock

\* C25 happens: a refund transaction has been built at a height past the
\* expiry height.
C25_Witness ==
    /\ Refunded
    /\ htlc.timelock > 0
    /\ wres.val.lock_time > wcall.utxos.val[1].block_height + htlc.timelock

\* redeem_htlc or refund_htlc has come to its dust check: the HTLC address
\* has a UTXO and, for a refund, the timelock has expired.
AtDustCheck ==
    \/ /\ wcall.op = "redeem_htlc"
       /\ wcall.utxos.st = "ok"
       /\ wcall.utxos.val # << >>
    \/ /\ wcall.op = "refund_htlc"
       /\ wcall.utxos.st = "ok"
       /\ wcall.utxos.val # << >>
       /\ wcall.height.st = "ok"
       /\ wcall.height.val >= wcall.utxos.val[1].block_height + htlc.timelock

\* The script the output of a redeem or refund pays to.
PaidScript == IF wcall.op = "redeem_htlc" THEN wcall.recipient_script ELSE wcall.refund_script

\* C26: redeem_htlc and refund_htlc never return a transaction whose output
\* is below the dust threshold of the script it pays to; when the UTXO's
\* value minus the fee (0 when the fee is larger) is below the threshold,
\* the call that comes to the dust check fails with the dust error.
C26_NoDustOutput ==
    /\ Redeemed \/ Refunded => wres.val.output[1].value >= DustThreshold(PaidScript)
    /\ AtDustCheck =>
          LET value == wcall.utxos.val[1].value
              left == IF value >= 2260 THEN value - 2260 ELSE 0
          IN  left < DustThreshold(PaidScript) => wres = Err("dust")

\* C26 happens: a redeem of a UTXO smaller than the fee has failed with the
\* dust error, and so has a refund that leaves one satoshi less than the
\* threshold.
C26_Witness ==
    /\ AtDustCheck
    /\ wres = Err("dust")
    /\ \/ wcall.op = "redeem_htlc" /\ wcall.utxos.val[1].value < 2260
       \/ wcall.op = "refund_htlc" /\ wcall.utxos.val[1].value = 2260 + DustThreshold(PaidScript) - 1

----------------------------------------------------------------------------
(* Properties of the executor's broadcasts (SpecExec).                     *)

\* How many broadcast requests the tick has made for an order.
Sent(order_id) == Cardinality({i \in 1..Len(broadcasts) : broadcasts[i].order_id = order_id})

\* C27: in a tick, broadcast_transaction is called once for the order just
\* taken up when the mapper returned an Init, Redeem or Refund action for
\* it, and not at all when it returned NoOp, an error or nothing; every
\* broadcast of the tick is for an order taken up, each order has at most
\* one, and each carries an Init, Redeem or Refund transaction.
C27_BroadcastOncePerAction ==
    /\ last # NoIteration =>
          /\ Sent(last.order_id) = IF last.action \in {"Init", "Redeem", "Refund"} THEN 1 ELSE 0
          /\ last.broadcast # "none" <=> last.action \in {"Init", "Redeem", "Refund"}
    /\ \A i \in 1..Len(broadcasts) :
          /\ broadcasts[i].kind \in {"Init", "Redeem", "Refund"}
          /\ broadcasts[i].order_id \in 1..idx
          /\ Sent(broadcasts[i].order_id) = 1

\* C27 happens: a tick has broadcast for its first order and found nothing
\* to do for its second.
C27_Witness ==
    /\ idx = 2
    /\ Len(broadcasts) = 1
    /\ broadcasts[1].order_id = 1
    /\ last.action = "NoOp"
    /\ last.broadcast = "none"

----------------------------------------------------------------------------
(* The executor's polling loop (SpecExec).                                 *)

\* C28: the polling loop never stops: whatever the ticks so far did, the
\* loop can take its next step, the start of a tick or the next order of
\* the tick under way.
C28_LoopNeverStops == ENABLED NextExec

----------------------------------------------------------------------------
(* Properties of the watcher's store (SpecStore).                          *)

\* C29: a call of cleanup_expired_htlcs with current_time sets the status
\* Expired on exactly the records whose status is Pending and whose
\* expires_at is before current_time; every other record, and every other
\* field, is as it was, and no record is added or removed.
C29_ExpiresPendingPastExpiry ==
    [][scall'.op = "cleanup_expired_htlcs" =>
          /\ DOMAIN htlc_params' = DOMAIN htlc_params
          /\ \A id \in DOMAIN htlc_params :
                LET params == htlc_params[id] IN
                IF params.status = "Pending" /\ params.expires_at < scall'.current_time
                THEN htlc_params'[id] = [status |-> "Expired", expires_at |-> params.expires_at]
                ELSE htlc_params'[id] = params]_storeVars

\* C29 happens: after a cleanup at time 1 the table holds a record expired
\* at 0 and a Pending record that expires at 1.
C29_Witness ==
    /\ scall = [op |-> "cleanup_expired_htlcs", current_time |-> 1]
    /\ DOMAIN htlc_params = HtlcIds
    /\ htlc_params["htlc1"] = [status |-> "Expired", expires_at |-> 0]
    /\ htlc_params["htlc2"] = [status |-> "Pending", expires_at |-> 1]

----------------------------------------------------------------------------
(* Properties of BitcoinHTLC::address (SpecHtlc).                          *)

\* Two HTLCs whose addresses have both been computed.
BothAddressed == hcall.op = "address" /\ hres.st = "ok" /\ hcall.other_address.st = "ok"

\* The two HTLCs have the same secret hash, keys and timelock.
SameContract ==
    /\ hcall.other.secret_hash = htlc.secret_hash
    /\ hcall.other.initiator_pubkey = htlc.initiator_pubkey
    /\ hcall.other.redeemer_pubkey = htlc.redeemer_pubkey
    /\ hcall.other.timelock = htlc.timelock

\* The two networks write their addresses with the same prefix.
SamePrefix ==
    \/ hcall.other.network = htlc.network
    \/ {hcall.other.network, htlc.network} = {"testnet", "signet"}

\* C30: the address of an HTLC is decided by its parameters alone, whatever
\* was called on it before: two HTLCs get the same address exactly when
\* they have the same secret hash, keys and timelock and their networks
\* share an address prefix (as testnet and signet do).
C30_AddressByParameters ==
    BothAddressed => (hres.val = hcall.other_address.val <=> SameContract /\ SamePrefix)

\* C30 as stated: two HTLCs get the same address exactly when all five
\* parameters, the network among them, are equal.
C30_AddressInjective ==
    BothAddressed => (hres.val = hcall.other_address.val <=> hcall.other = htlc)

\* C30 happens: an HTLC on testnet and the same contract on signet have the
\* same address.
C30_Witness ==
    /\ BothAddressed
    /\ htlc.network = "testnet"
    /\ hcall.other.network = "signet"
    /\ hres.val = hcall.other_address.val

----------------------------------------------------------------------------
(* Properties of the refund transaction's timelock (SpecBuilders,          *)
(* SpecWallet).                                                            *)

\* <blocks> OP_CSV on an input (BIP 112, BIP 68): the transaction has
\* version 2 or more, the input's sequence number has the disable flag
\* clear and counts blocks (type flag clear), and its value is at least
\* blocks.
CsvSatisfied(tx, blocks) ==
    LET n == sequence_fields(tx.input[1].sequence) IN
    /\ tx.version >= 2
    /\ ~n.disable_flag
    /\ ~n.type_flag
    /\ n.value >= blocks

\* C31: every transaction refund_htlc returns passes the refund leaf's
\* <timelock> OP_CSV: its input's sequence number has relative locktime
\* enabled and encodes at least timelock blocks.
C31_RefundPassesCsv == Refunded => CsvSatisfied(wres.val, htlc.timelock)

----------------------------------------------------------------------------
(* Properties of get_control_block (SpecHtlc).                             *)

\* C32: for every BitcoinHTLC whose tree can be built, the leaf script
\* get_control_block makes for Redeem, Refund and InstantRefund is one of
\* the three leaves of the tree, so no call of it, and no call of redeem or
\* refund, panics.
C32_LeavesCommitted ==
    hcall.op \in {"redeem", "refund"} =>
        /\ hres.st # "panic"
        /\ \A leaf \in {"Redeem", "Refund", "InstantRefund"} :
              get_control_block(htlc, leaf).st # "panic"

----------------------------------------------------------------------------
(* The executor's and the watcher's HTLC of one swap (SpecExec).           *)

\* The order the last loop iteration took up, once it has built a
\* transaction for it.
Built == last.action \in {"Init", "Redeem", "Refund"}

\* The address the watcher polls for a swap: the HTLC of the swap's secret
\* hash, initiator (who refunds), redeemer (who receives) and timelock.
WatchedAddress(swap) ==
    create_htlc_address(swap.redeemer, swap.initiator, swap.secret_hash, swap.timelock)

\* C33: the HTLC a handler builds for an order has the address the watcher
\* derives for the order's destination swap from its secret hash,
\* initiator, redeemer and timelock.
C33_ExecutorAddressIsWatched ==
    Built => address(OrderHtlc(pending[idx]).val) = WatchedAddress(pending[idx].destination_swap)

----------------------------------------------------------------------------
(* Funding transactions over several executor ticks (SpecExec). An order   *)
(* keeps its create_id from tick to tick.                                  *)

\* The step is a loop iteration that broadcast an Init transaction.
InitBroadcast ==
    /\ idx' = idx + 1
    /\ last'.action = "Init"
    /\ last'.broadcast = "ok"

\* C34: an order for which an Init transaction has been broadcast gets no
\* second Init transaction from a later loop iteration, in whatever tick.
C34_OneInitPerOrder ==
    [][InitBroadcast => last'.order_id \notin initiated]_vars

----------------------------------------------------------------------------
(* Refund events and revealed preimages (SpecWatcher).                     *)

\* The kinds of the events the last poll emitted.
EmittedKinds == {poll.events[i].kind : i \in 1..Len(poll.events)}

\* C35: a poll emits no HtlcRefunded event for an HTLC whose spending
\* transaction has an input that reveals a preimage of the hash lock,
\* whatever the indexer answers to the request for that transaction.
C35_NoRefundedWhenRevealed ==
    "HtlcRefunded" \in EmittedKinds => RevealingInputs = {}

----------------------------------------------------------------------------
(* The last-seen balance and the funding event (SpecWatcher).              *)

\* The balance the watcher holds as last seen for the order's address;
\* none counts as zero.
LastSeen(seen) ==
    IF is_some(MapGet(seen, HtlcAddress)) THEN unwrap(MapGet(seen, HtlcAddress)) ELSE 0

\* C36: a call of watch_order_htlc that records a higher balance as last
\* seen for the order's address has emitted HtlcFunded.
C36_RaisedBalanceIsFunded ==
    [][(polls' # polls /\ AddressDerived
        /\ LastSeen(watched_addresses') > LastSeen(watched_addresses)) =>
          "HtlcFunded" \in {poll'.events[i].kind : i \in 1..Len(poll'.events)}]_vars

----------------------------------------------------------------------------
(* Refund of an unconfirmed HTLC output (SpecExec).                        *)

\* The last loop iteration called refund_htlc and the indexer answered it
\* an HTLC UTXO that is not confirmed.
RefundOfUnconfirmed ==
    /\ last.resolved = "Refund"
    /\ last.htlc_utxos.st = "ok"
    /\ last.htlc_utxos.val # << >>
    /\ ~last.htlc_utxos.val[1].confirmed

----------------------------------------------------------------------------
(* Value conservation of the funding transaction (SpecFunding).            *)

\* What the inputs of a funding transaction hold: each p2wpkh signature is
\* made over the value of the output it spends.
RECURSIVE InputValue(_)
InputValue(input) ==
    IF input = << >> THEN 0 ELSE input[1].witness[1].ecdsa + InputValue(Tail(input))

\* The fee a transaction pays: what its inputs hold beyond its outputs.
PaidFee(tx) == InputValue(tx.input) - SumValues(tx.output)

\* The fee initiate_htlc estimates for a transaction with these inputs.
EstimatedFee(tx) == calculate_fee(Len(tx.input), 2, 10)

\* The inputs cover the HTLC output of value amount, the change output if
\* there is one, and a fee of at least the estimate.
ValueConserved ==
    /\ wres.val.output[1].value = wcall.amount
    /\ \A i \in 1..Len(wres.val.output) : wres.val.output[i].value > 0
    /\ PaidFee(wres.val) >= EstimatedFee(wres.val)

\* C38: the funding transaction conserves value, pays at least the
\* estimated fee, pays exactly the estimate when it has a change output
\* and otherwise exceeds the estimate by less than the change script's dust
\* threshold.
C38_FeeIsEstimatePlusDust ==
    Initiated =>
        /\ ValueConserved
        /\ Len(wres.val.output) = 2 => PaidFee(wres.val) = EstimatedFee(wres.val)
        /\ PaidFee(wres.val) - EstimatedFee(wres.val) < P2WPKH_DUST_THRESHOLD

\* C38 as stated: the paid fee equals the estimate exactly when the
\* transaction has a change output.
C38_EstimateIffChange ==
    Initiated =>
        /\ ValueConserved
        /\ PaidFee(wres.val) = EstimatedFee(wres.val) <=> Len(wres.val.output) = 2

\* C38 happens: the inputs hold the amount plus the estimated fee, so the
\* transaction has no change output and pays exactly the estimate.
C38_Witness ==
    /\ Initiated
    /\ Len(wres.val.output) = 1
    /\ PaidFee(wres.val) = EstimatedFee(wres.val)

----------------------------------------------------------------------------
(* The event of one poll and what the poll was answered (SpecWatcher).     *)

\* C39: one call of watch_order_htlc emits at most one event; HtlcFunded
\* only when it was answered a non-empty UTXO set, HtlcClaimed and
\* HtlcRefunded only when it was answered an empty UTXO set and a
\* transaction count of 2.
C39_OneEventOfThePolledState ==
    /\ Len(poll.events) <= 1
    /\ \A i \in 1..Len(poll.events) :
          /\ poll.events[i].kind \in {"HtlcFunded", "HtlcClaimed", "HtlcRefunded"}
          /\ PolledUtxos(poll.view).st = "ok"
          /\ IF poll.events[i].kind = "HtlcFunded"
             THEN PolledUtxos(poll.view).val # << >>
             ELSE /\ PolledUtxos(poll.view).val = << >>
                  /\ poll.view.chain.tx_count = 2

\* C39 happens: a poll answered an empty UTXO set and two transactions
\* emits one event, the claim.
C39_Witness ==
    /\ SpentPoll
    /\ Len(poll.events) = 1
    /\ poll.events[1].kind = "HtlcClaimed"

----------------------------------------------------------------------------
(* Active-swap specification: watch_cycle run again and again, each cycle  *)
(* over the orders of the swaps the store still reports as active.         *)

\* Variant of get_active_swaps without the filter.
get_active_swaps_all(swaps) == DOMAIN swaps

\* BitcoinStore::get_active_swaps on matched orders with one Bitcoin swap
\* each: the swaps that have neither a redeem nor a refund block number.
get_active_swaps(swaps) ==
    {id \in DOMAIN swaps :
        is_none(swaps[id].redeem_block_number) /\ is_none(swaps[id].refund_block_number)}

\* What get_active_orders can return: the orders of active swaps.
ActiveOrderLists(swaps) ==
    {l \in CycleOrderLists : \A j \in 1..Len(l) : l[j].id \in get_active_swaps(swaps)}

\* watch_cycle up to the loop, get_active_orders answering from the store.
ActiveCycleStart ==
    /\ CycleStart
    /\ cycle'.orders \in ActiveOrderLists(cycle.swaps)

NextActive == CycleFetchFails \/ ActiveCycleStart \/ CyclePoll

SpecActive == InitCycle /\ [][NextActive]_vars

\* The swap has a redeem transaction recorded.
ClaimedRecorded(swap) == is_some(swap.redeem_tx_hash)

\* The swap has a refund transaction recorded.
RefundedRecorded(swap) == is_some(swap.refund_tx_hash)

====
